---- MODULE Spec2Model ----
(***************************************************************************)
(* Media catalog backend (src/app.py): the request-to-row assembler, the   *)
(* row-to-record reader and the HTTP handlers over the `media` relation.   *)
(*                                                                         *)
(* Representation of Python values                                         *)
(*   - a str is a sequence of one-character strings;                       *)
(*   - a scalar or list-like request value is a record:                    *)
(*     k = "missing" (key not in the JSON body), "none", "str" (s), "list" *)
(*     (l, a list of strs), "num" (n / 10^d) or "obj" (a non-empty JSON    *)
(*     object); [k, s, l, n, d] in full;                                   *)
(*   - enum-like values (type, file_type, source_type) are atoms;          *)
(*   - a JSON text holding a list of strs is a str, parsed and printed     *)
(*     character by character;                                             *)
(*   - a JSON text holding a nested structure is [py, j, v]: py says how   *)
(*     the value is presented ("missing", "none", "native", "str"), j      *)
(*     whether the str is empty, malformed ("bad") or well-formed ("ok"),  *)
(*     and v the value the text denotes.  Every structured value has a     *)
(*     field k naming its JSON type.                                       *)
(***************************************************************************)
EXTENDS Integers, Sequences, FiniteSets, TLC

-----------------------------------------------------------------------------
(* Scalar and list-like Python values *)

Missing == [k |-> "missing", s |-> <<>>, l |-> <<>>, n |-> 0, d |-> 0]
PyNone == [k |-> "none", s |-> <<>>, l |-> <<>>, n |-> 0, d |-> 0]
PyStr(s) == [k |-> "str", s |-> s, l |-> <<>>, n |-> 0, d |-> 0]
PyList(l) == [k |-> "list", s |-> <<>>, l |-> l, n |-> 0, d |-> 0]
\* the number n / 10^d, with n not a multiple of 10 unless d = 0
PyFloat(n, d) == [k |-> "num", s |-> <<>>, l |-> <<>>, n |-> n, d |-> d]
PyNum(n) == PyFloat(n, 0)
PyObj == [k |-> "obj", s |-> <<>>, l |-> <<>>, n |-> 0, d |-> 0]

\* dict.get(key): an absent key reads as None
Get(v) == IF v.k = "missing" THEN PyNone ELSE v

\* dict.get(key, default)
GetD(v, d) == IF v.k = "missing" THEN d ELSE v

\* Python truth value of a scalar or list-like value
Truthy(v) ==
    CASE v.k = "str" -> v.s # <<>>
      [] v.k = "list" -> v.l # <<>>
      [] v.k = "num" -> v.n # 0
      [] v.k = "obj" -> TRUE
      [] OTHER -> FALSE

-----------------------------------------------------------------------------
(* str operations *)

RECURSIVE LStrip(_)
LStrip(s) == IF s # <<>> /\ Head(s) = " " THEN LStrip(Tail(s)) ELSE s

RECURSIVE RStrip(_)
RStrip(s) ==
    IF s # <<>> /\ s[Len(s)] = " " THEN RStrip(SubSeq(s, 1, Len(s) - 1)) ELSE s

\* str.strip()
Strip(s) == RStrip(LStrip(s))

RECURSIVE SplitAcc(_, _, _, _)
SplitAcc(s, sep, cur, acc) ==
    IF s = <<>> THEN Append(acc, cur)
    ELSE IF Head(s) = sep THEN SplitAcc(Tail(s), sep, <<>>, Append(acc, cur))
    ELSE SplitAcc(Tail(s), sep, Append(cur, Head(s)), acc)

\* str.split(sep)
Split(s, sep) == SplitAcc(s, sep, <<>>, <<>>)

NonEmptyStr(t) == t # <<>>

\* the split without the strip and without dropping the empty pieces
CommaListRaw(s) == Split(s, ",")

\* [url.strip() for url in text.split(',') if url.strip()]
CommaList(s) ==
    LET parts == Split(s, ",")
    IN SelectSeq([i \in 1..Len(parts) |-> Strip(parts[i])], NonEmptyStr)

\* text.startswith('[') and text.endswith(']')
LooksLikeArray(s) == s # <<>> /\ Head(s) = "[" /\ s[Len(s)] = "]"

-----------------------------------------------------------------------------
(* json.dumps / json.loads on texts that hold a list of strs.  The grammar  *)
(* is JSON restricted to a str literal or an array of str literals, with    *)
(* the escapes \" and \\ and the blank as the only white space: every text  *)
(* json.dumps prints for a list of strs is in it.                           *)

Quote == "\""
Backslash == "\\"
NullText == <<"n", "u", "l", "l">>

RECURSIVE EscapeStr(_)
EscapeStr(s) ==
    IF s = <<>> THEN <<>>
    ELSE IF Head(s) \in {Quote, Backslash}
         THEN <<Backslash, Head(s)>> \o EscapeStr(Tail(s))
         ELSE <<Head(s)>> \o EscapeStr(Tail(s))

\* a str printed between quotes with nothing escaped
JsonDumpsStrRaw(s) == <<Quote>> \o s \o <<Quote>>

\* json.dumps(str)
JsonDumpsStr(s) == <<Quote>> \o EscapeStr(s) \o <<Quote>>

RECURSIVE JoinItems(_)
JoinItems(l) ==
    IF l = <<>> THEN <<>>
    ELSE IF Len(l) = 1 THEN JsonDumpsStr(l[1])
    ELSE JsonDumpsStr(l[1]) \o <<",", " ">> \o JoinItems(Tail(l))

\* json.dumps(list of str): items separated by ", "
JsonDumpsList(l) == <<"[">> \o JoinItems(l) \o <<"]">>

\* The array scanner.  st: "start" (after '['), "value" (after ','), "in"
\* (inside a str literal), "esc" (after a backslash), "post" (after a value).
RECURSIVE ScanArray(_, _, _, _)
ScanArray(s, st, cur, acc) ==
    IF s = <<>>
    THEN [ok |-> st \in {"start", "post"}, l |-> acc]
    ELSE LET c == Head(s)
             r == Tail(s)
         IN CASE st \in {"start", "value"} ->
                   IF c = " " THEN ScanArray(r, st, cur, acc)
                   ELSE IF c = Quote THEN ScanArray(r, "in", <<>>, acc)
                   ELSE [ok |-> FALSE, l |-> <<>>]
              [] st = "in" ->
                   IF c = Quote THEN ScanArray(r, "post", <<>>, Append(acc, cur))
                   ELSE IF c = Backslash THEN ScanArray(r, "esc", cur, acc)
                   ELSE ScanArray(r, "in", Append(cur, c), acc)
              [] st = "esc" ->
                   IF c \in {Quote, Backslash}
                   THEN ScanArray(r, "in", Append(cur, c), acc)
                   ELSE [ok |-> FALSE, l |-> <<>>]
              [] OTHER ->
                   IF c = " " THEN ScanArray(r, st, cur, acc)
                   ELSE IF c = "," THEN ScanArray(r, "value", <<>>, acc)
                   ELSE [ok |-> FALSE, l |-> <<>>]

\* json.loads(text): [ok, v]; ok = FALSE stands for json.JSONDecodeError
JsonLoads(text) ==
    LET s == Strip(text)
        n == Len(s)
    IN IF n >= 2 /\ s[1] = "[" /\ s[n] = "]"
       THEN LET a == ScanArray(SubSeq(s, 2, n - 1), "start", <<>>, <<>>)
            IN [ok |-> a.ok, v |-> PyList(a.l)]
       ELSE IF n >= 2 /\ s[1] = Quote
       THEN LET a == ScanArray(s, "start", <<>>, <<>>)
            IN [ok |-> a.ok /\ Len(a.l) = 1,
                v |-> IF a.ok /\ Len(a.l) = 1 THEN PyStr(a.l[1]) ELSE PyNone]
       ELSE IF s = NullText THEN [ok |-> TRUE, v |-> PyNone]
       ELSE [ok |-> FALSE, v |-> PyNone]

\* json.dumps(value) of None, a str or a list of strs
json_dumps_text(value) ==
    CASE value.k = "list" -> PyStr(JsonDumpsList(value.l))
      [] value.k = "str" -> PyStr(JsonDumpsStr(value.s))
      [] value.k = "none" -> PyStr(NullText)

\* safe_json_loads(data, default) on a scalar or list-like value
safe_json_loads_text(data, default) ==
    IF data.k \in {"none", "missing"} THEN default
    ELSE IF data.k \in {"list", "obj"} THEN data
    ELSE IF data.k = "str"
    THEN IF data.s = <<>> THEN default
         ELSE IF JsonLoads(data.s).ok THEN JsonLoads(data.s).v ELSE default
    ELSE default

\* clean_value(value)
clean_value(value) ==
    IF value.k = "str"
    THEN IF Strip(value.s) # <<>> THEN PyStr(Strip(value.s)) ELSE PyNone
    ELSE value

DateLen == 10

\* format_date_for_input(date_value), on the str the column holds
format_date_for_input(date_value) ==
    IF ~Truthy(date_value) THEN PyNone
    ELSE IF date_value.k = "str"
    THEN IF Len(date_value.s) >= DateLen
         THEN PyStr(SubSeq(date_value.s, 1, DateLen))
         ELSE date_value
    ELSE PyNone

\* parse_subtitle_input(subtitle_data): the list it returns
parse_subtitle_input(subtitle_data) ==
    IF ~Truthy(subtitle_data) THEN PyList(<<>>)
    ELSE IF subtitle_data.k = "str"
    THEN IF LooksLikeArray(subtitle_data.s)
         THEN safe_json_loads_text(subtitle_data, PyList(<<>>))
         ELSE PyList(CommaList(subtitle_data.s))
    ELSE IF subtitle_data.k = "list" THEN subtitle_data
    ELSE PyList(<<>>)

-----------------------------------------------------------------------------
(* float(x) and int(x) on decimal numerals (digits and at most one point;  *)
(* no sign, exponent, inf or nan)                                          *)

Digits == <<"0", "1", "2", "3", "4", "5", "6", "7", "8", "9">>

IsDigit(c) == \E i \in 1..Len(Digits) : Digits[i] = c

DigitVal(c) == (CHOOSE i \in 1..Len(Digits) : Digits[i] = c) - 1

AllDigits(s) == \A i \in 1..Len(s) : IsDigit(s[i])

RECURSIVE DigitsVal(_, _)
DigitsVal(s, acc) ==
    IF s = <<>> THEN acc ELSE DigitsVal(Tail(s), acc * 10 + DigitVal(Head(s)))

RECURSIVE DropZeros(_)
DropZeros(s) ==
    IF s # <<>> /\ s[Len(s)] = "0" THEN DropZeros(SubSeq(s, 1, Len(s) - 1)) ELSE s

RECURSIVE Pow10(_)
Pow10(d) == IF d = 0 THEN 1 ELSE 10 * Pow10(d - 1)

\* float(value): [ok, v]; ok = FALSE stands for ValueError / TypeError
ToFloat(value) ==
    IF value.k = "num" THEN [ok |-> TRUE, v |-> value]
    ELSE IF value.k = "str"
    THEN LET parts == Split(Strip(value.s), ".")
             ip == parts[1]
             fp == IF Len(parts) = 2 THEN DropZeros(parts[2]) ELSE <<>>
             good == /\ Len(parts) \in {1, 2}
                     /\ AllDigits(ip)
                     /\ Len(parts) = 2 => AllDigits(parts[2])
                     /\ ip \o (IF Len(parts) = 2 THEN parts[2] ELSE <<>>) # <<>>
         IN IF good
            THEN [ok |-> TRUE, v |-> PyFloat(DigitsVal(ip \o fp, 0), Len(fp))]
            ELSE [ok |-> FALSE, v |-> PyNone]
    ELSE [ok |-> FALSE, v |-> PyNone]

\* int(value): a float is truncated, a str must be an integer numeral
ToInt(value) ==
    IF value.k = "num"
    THEN [ok |-> TRUE, v |-> PyNum(value.n \div Pow10(value.d))]
    ELSE IF value.k = "str"
    THEN LET s == Strip(value.s)
         IN IF s # <<>> /\ AllDigits(s)
            THEN [ok |-> TRUE, v |-> PyNum(DigitsVal(s, 0))]
            ELSE [ok |-> FALSE, v |-> PyNone]
    ELSE [ok |-> FALSE, v |-> PyNone]

\* value in [None, '']
NoneOrEmpty(value) == value.k = "none" \/ (value.k = "str" /\ value.s = <<>>)

\* the rating of prepare_media_data
ParseRating(value) ==
    IF NoneOrEmpty(value) THEN PyNone
    ELSE IF ToFloat(value).ok THEN ToFloat(value).v ELSE PyNone

\* the total_seasons of prepare_media_data
ParseTotalSeasons(value) ==
    IF NoneOrEmpty(value) THEN PyNone
    ELSE IF ToInt(value).ok THEN ToInt(value).v ELSE PyNone

-----------------------------------------------------------------------------
(* Structured JSON values: [k, p, m].  k is the JSON type ("dict", "list", *)
(* "str", "num", "none" for null, "missing" for a key that is not there);  *)
(* m is the mapping of a dict; p names the content of a value whose        *)
(* content is not looked into ("" is the empty list, the empty str or 0).  *)

SVal(k, p, m) == [k |-> k, p |-> p, m |-> m]
Dict(m) == SVal("dict", "", m)
EmptyDict == Dict(<<>>)
ListOf(p) == SVal("list", p, <<>>)
EmptyList == ListOf("")
StrOf(p) == SVal("str", p, <<>>)
NumOf(p) == SVal("num", p, <<>>)
Null == SVal("none", "", <<>>)
NoKey == SVal("missing", "", <<>>)

\* Python truth value of a structured value
TruthyS(v) ==
    CASE v.k = "dict" -> DOMAIN v.m # {}
      [] v.k \in {"list", "str", "num"} -> v.p # ""
      [] OTHER -> FALSE

\* d.get(key, default) on the mapping of a dict
DictGet(m, key, default) == IF key \in DOMAIN m THEN m[key] ELSE default

\* d[key] = value
DictSet(m, key, value) ==
    [x \in DOMAIN m \cup {key} |-> IF x = key THEN value ELSE m[x]]

(* JSON presented to the program: [py, j, v] *)
MissingJ == [py |-> "missing", j |-> "ok", v |-> Null]
NoneJ == [py |-> "none", j |-> "ok", v |-> Null]
Native(v) == [py |-> "native", j |-> "ok", v |-> v]
Text(v) == [py |-> "str", j |-> "ok", v |-> v]
BadText == [py |-> "str", j |-> "bad", v |-> Null]
EmptyText == [py |-> "str", j |-> "empty", v |-> Null]

\* truth value of data.get(key) for a JSON-valued key
TruthyJ(data) ==
    CASE data.py = "native" -> TruthyS(data.v)
      [] data.py = "str" -> data.j # "empty"
      [] OTHER -> FALSE

\* json.dumps(value) of a structured value
json_dumps(value) == Text(value)

\* safe_json_loads(data, default) on a structured value or its text
safe_json_loads(data, default) ==
    IF data.py \in {"missing", "none"} THEN default
    ELSE IF data.py = "native"
    THEN IF data.v.k \in {"dict", "list"} THEN data.v ELSE default
    ELSE IF data.j = "ok" THEN data.v ELSE default

-----------------------------------------------------------------------------
(* Seasons.  The seasons value is a dict keyed by season: key n stands for *)
(* 'season_<n>' and key 0 for 'season_None'.  A season bucket is            *)
(* [ek, season_number, total_episodes, episodes]: ek says whether the key  *)
(* 'episodes' holds a list ("list"), is not there ("missing") or holds     *)
(* something else ("other").  An episode is [k, episode_number,            *)
(* episode_name, video, subtitles]; k = "num" is an entry of the episode   *)
(* list that is no dict; video carries the per-quality video links, the    *)
(* download, telegram and torrent links being built the same way.          *)

Qualities == {"720p", "1080p", "2160p"}
Languages == {"english", "sinhala"}

AMissing == "<missing>"
ANone == "<None>"

\* dict.get(key) and dict.get(key, default) on an enum-like value
GetA(a) == IF a = AMissing THEN ANone ELSE a
GetAD(a, default) == IF a = AMissing THEN default ELSE a

\* {'english': [], 'sinhala': []}
DefaultSubtitles == Dict([lang \in Languages |-> PyList(<<>>)])

Episode(number, name, video, subtitles) ==
    [k |-> "dict", episode_number |-> number, episode_name |-> name,
     video |-> video, subtitles |-> subtitles]

Bucket(number, total, episodes) ==
    [ek |-> "list", season_number |-> number, total_episodes |-> total,
     episodes |-> episodes]

\* f'season_{season_number}'
season_key(season_number) ==
    IF season_number.k = "num" THEN season_number.n ELSE 0

\* lines 393-399: back-fill of one episode's subtitles by the assembler
BackfillEpisode(episode) ==
    IF episode.subtitles.k = "missing"
    THEN [episode EXCEPT !.subtitles = DefaultSubtitles]
    ELSE IF episode.subtitles.k = "dict"
    THEN [episode EXCEPT !.subtitles =
             Dict([lang \in DOMAIN episode.subtitles.m \cup Languages |->
                      DictGet(episode.subtitles.m, lang, PyList(<<>>))])]
    ELSE episode

\* lines 454-455: back-fill of one episode's subtitles by the row reader
BackfillEpisodeOnRead(episode) ==
    IF episode.subtitles.k = "missing"
    THEN [episode EXCEPT !.subtitles = DefaultSubtitles]
    ELSE episode

\* the loop over seasons and episodes, back-filling each episode the way
\* the assembler (by = "prepare") or the row reader (by = "parse") does
MapEpisodes(seasons, by) ==
    IF TruthyS(seasons) /\ seasons.k = "dict"
    THEN Dict([key \in DOMAIN seasons.m |->
                 IF seasons.m[key].ek = "list"
                 THEN [seasons.m[key] EXCEPT !.episodes =
                          [i \in 1..Len(seasons.m[key].episodes) |->
                              IF by = "prepare"
                              THEN BackfillEpisode(seasons.m[key].episodes[i])
                              ELSE BackfillEpisodeOnRead(
                                       seasons.m[key].episodes[i])]]
                 ELSE seasons.m[key]])
    ELSE seasons

\* the loop raises TypeError on an episode that is no dict
EpisodesRaise(seasons) ==
    /\ TruthyS(seasons)
    /\ seasons.k = "dict"
    /\ \E key \in DOMAIN seasons.m :
          /\ seasons.m[key].ek = "list"
          /\ \E i \in 1..Len(seasons.m[key].episodes) :
                seasons.m[key].episodes[i].k # "dict"

-----------------------------------------------------------------------------
(* extract_youtube_id.  A url is a sequence of characters; re.search finds  *)
(* the leftmost place where the text of the pattern is followed by eleven  *)
(* characters of [\w-].                                                    *)

IdLen == 11

Alnum ==
    {"a", "b", "c", "d", "e", "f", "g", "h", "i", "j", "k", "l", "m",
       "n", "o", "p", "q", "r", "s", "t", "u", "v", "w", "x", "y", "z",
       "A", "B", "C", "D", "E", "F", "G", "H", "I", "J", "K", "L", "M",
       "N", "O", "P", "Q", "R", "S", "T", "U", "V", "W", "X", "Y", "Z",
       "0", "1", "2", "3", "4", "5", "6", "7", "8", "9"}

\* [\w-]
IdChars == Alnum \cup {"_", "-"}

\* the fixed texts of the four patterns of lines 207-212, in their order
Patterns ==
    <<<<"y", "o", "u", "t", "u", "b", "e", ".", "c", "o", "m", "/", "w",
        "a", "t", "c", "h", "?", "v", "=">>,
      <<"y", "o", "u", "t", "u", ".", "b", "e", "/">>,
      <<"y", "o", "u", "t", "u", "b", "e", ".", "c", "o", "m", "/", "e",
        "m", "b", "e", "d", "/">>,
      <<"y", "o", "u", "t", "u", "b", "e", ".", "c", "o", "m", "/", "v",
        "/">>>>

EmbedPrefix ==
    <<"h", "t", "t", "p", "s", ":", "/", "/", "w", "w", "w", ".", "y", "o",
      "u", "t", "u", "b", "e", ".", "c", "o", "m", "/", "e", "m", "b", "e",
      "d", "/">>

\* the characters of s from position i on, n of them
Chars(s, i, n) == SubSeq(s, i, i + n - 1)

\* the pattern matches at position i of url
MatchAt(url, prefix, i) ==
    /\ i + Len(prefix) + IdLen - 1 <= Len(url)
    /\ Chars(url, i, Len(prefix)) = prefix
    /\ \A j \in 0..(IdLen - 1) : url[i + Len(prefix) + j] \in IdChars

\* re.search(pattern, url): group(1) of the leftmost match, <<>> for no match
Search(url, prefix) ==
    LET hits == {i \in 1..Len(url) : MatchAt(url, prefix, i)}
    IN IF hits = {} THEN <<>>
       ELSE LET first == CHOOSE i \in hits : \A j \in hits : i <= j
            IN Chars(url, first + Len(prefix), IdLen)

\* extract_youtube_id(url), lines 202-222, for a str url
extract_youtube_id(url) ==
    IF url = <<>> THEN PyNone
    ELSE LET found == {p \in 1..Len(Patterns) : Search(url, Patterns[p]) # <<>>}
         IN IF found # {}
            THEN PyStr(Search(url, Patterns[CHOOSE p \in found :
                                                \A q \in found : p <= q]))
            ELSE IF Len(url) = IdLen /\ \A i \in 1..Len(url) : url[i] \in IdChars
            THEN PyStr(url)
            ELSE PyNone

\* lines 256-260 raise TypeError: re.search on a value that is no str
youtube_raises(data) ==
    LET youtube_trailer == clean_value(Get(data.youtube_trailer))
    IN Truthy(youtube_trailer) /\ youtube_trailer.k # "str"

\* lines 256-260
prepare_youtube_trailer(data) ==
    LET youtube_trailer == clean_value(Get(data.youtube_trailer))
    IN IF Truthy(youtube_trailer) /\ youtube_trailer.k = "str"
       THEN LET youtube_id == extract_youtube_id(youtube_trailer.s)
            IN IF Truthy(youtube_id)
               THEN PyStr(EmbedPrefix \o youtube_id.s)
               ELSE youtube_trailer
       ELSE youtube_trailer

-----------------------------------------------------------------------------
(* prepare_media_data.  The request body `data` has the keys               *)
(*   type, title, description, release_date, rating, total_seasons,        *)
(*   cast_members, video_links, video[q], tv_video[q], download_links,     *)
(*   download[q], telegram_links, telegram[q], seasons, genres, file_type, *)
(*   source_type, screenshots_720p, subtitles, english_subtitles,          *)
(*   sinhala_subtitles.                                                    *)
(* description stands for the keys cleaned like it (thumbnail, backdrop,   *)
(* language, status), telegram for torrent, screenshots_720p for the four  *)
(* galleries.                                                              *)

valid_source_types ==
    {"original", "camcopy", "bluray", "webrip", "web-dl", "hdtv", "dvdrip", "brrip"}

\* lines 243-247
prepare_genres(data) ==
    LET genres == GetD(data.genres, PyList(<<>>))
    IN IF genres.k = "str"
       THEN IF genres.s # <<>>
            THEN LET parts == Split(genres.s, ",")
                 IN PyList([i \in 1..Len(parts) |-> Strip(parts[i])])
            ELSE PyList(<<>>)
       ELSE IF genres.k = "none" THEN PyList(<<>>)
       ELSE genres

\* lines 250-253
prepare_source_type(data) ==
    LET source_type == GetAD(data.source_type, "original")
    IN IF source_type \notin valid_source_types THEN "original" ELSE source_type

\* lines 304 and 383
prepare_file_type(data) == GetAD(data.file_type, "webrip")

\* lines 263-272
process_screenshots(screenshots) ==
    LET screenshots_input == GetD(screenshots, PyStr(<<>>))
    IN IF screenshots_input.k = "str"
       THEN IF LooksLikeArray(screenshots_input.s)
            THEN safe_json_loads_text(screenshots_input, PyList(<<>>))
            ELSE PyList(CommaList(screenshots_input.s))
       ELSE IF screenshots_input.k = "list" THEN screenshots_input
       ELSE PyList(<<>>)

NoFileType == "-"

\* a or b
PyOr(a, b) == IF Truthy(a) THEN a ELSE b

\* the map synthesized from the per-quality keys; pick[q] is the cleaned value
SynthLinks(pick, file_type) ==
    Dict([q \in {x \in Qualities : Truthy(pick[x])} |->
             [url |-> pick[q], file_type |-> file_type]])

\* lines 280-293
prepare_video_links(data) ==
    IF TruthyJ(data.video_links)
    THEN safe_json_loads(data.video_links, EmptyDict)
    ELSE SynthLinks([q \in Qualities |->
                        PyOr(clean_value(Get(data.video[q])),
                             clean_value(Get(data.tv_video[q])))],
                    NoFileType)

\* lines 296-311
prepare_download_links(data) ==
    IF TruthyJ(data.download_links)
    THEN safe_json_loads(data.download_links, EmptyDict)
    ELSE SynthLinks([q \in Qualities |-> clean_value(Get(data.download[q]))],
                    prepare_file_type(data))

\* lines 314-327 (and 330-343)
prepare_telegram_links(data) ==
    IF TruthyJ(data.telegram_links)
    THEN safe_json_loads(data.telegram_links, EmptyDict)
    ELSE SynthLinks([q \in Qualities |-> clean_value(Get(data.telegram[q]))],
                    NoFileType)

\* lines 346-361
prepare_subtitles(data) ==
    IF TruthyJ(data.subtitles)
    THEN LET subtitles_data == safe_json_loads(data.subtitles, EmptyDict)
         IN IF subtitles_data.k = "dict"
            THEN Dict([lang \in Languages |->
                    parse_subtitle_input(
                        DictGet(subtitles_data.m, lang, PyList(<<>>)))])
            ELSE DefaultSubtitles
    ELSE Dict([lang \in Languages |->
                 parse_subtitle_input(
                     GetD(IF lang = "english" THEN data.english_subtitles
                          ELSE data.sinhala_subtitles, PyStr(<<>>)))])

\* lines 387-399
prepare_seasons(data) ==
    MapEpisodes(safe_json_loads(data.seasons, EmptyDict), "prepare")

\* prepare_media_data raises TypeError, from re.search or the seasons loop
prepare_raises(data) ==
    \/ youtube_raises(data)
    \/ EpisodesRaise(safe_json_loads(data.seasons, EmptyDict))

\* prepare_media_data(data): the prepared_data it returns
prepare_media_data(data) ==
    [type |-> GetA(data.type),
     title |-> clean_value(GetD(data.title, PyStr(<<>>))),
     description |-> clean_value(Get(data.description)),
     release_date |-> clean_value(Get(data.release_date)),
     rating |-> ParseRating(Get(data.rating)),
     cast_members |-> safe_json_loads(data.cast_members, EmptyList),
     video_links |-> prepare_video_links(data),
     download_links |-> prepare_download_links(data),
     telegram_links |-> prepare_telegram_links(data),
     total_seasons |-> ParseTotalSeasons(Get(data.total_seasons)),
     seasons |-> prepare_seasons(data),
     genres |-> prepare_genres(data),
     file_type |-> prepare_file_type(data),
     source_type |-> prepare_source_type(data),
     youtube_trailer |-> prepare_youtube_trailer(data),
     screenshots_720p |-> process_screenshots(data.screenshots_720p),
     subtitles |-> prepare_subtitles(data)]

-----------------------------------------------------------------------------
(* The media relation.  A row holds the columns as the INSERT / UPDATE     *)
(* statements write them: the JSON-valued ones as the text json.dumps      *)
(* prints, the others as prepared.                                         *)

\* the column values of lines 614-640 and 675-701
RowOf(media_data) ==
    [type |-> media_data.type,
     title |-> media_data.title,
     description |-> media_data.description,
     release_date |-> media_data.release_date,
     rating |-> media_data.rating,
     cast_members |-> json_dumps(media_data.cast_members),
     video_links |-> json_dumps(media_data.video_links),
     download_links |-> json_dumps(media_data.download_links),
     telegram_links |-> json_dumps(media_data.telegram_links),
     total_seasons |-> media_data.total_seasons,
     seasons |-> json_dumps(media_data.seasons),
     genres |-> json_dumps_text(media_data.genres),
     file_type |-> media_data.file_type,
     source_type |-> media_data.source_type,
     youtube_trailer |-> media_data.youtube_trailer,
     screenshots_720p |-> json_dumps_text(media_data.screenshots_720p),
     subtitles |-> json_dumps(media_data.subtitles)]

\* parse_media_row(row) raises (TypeError, from the seasons loop)
parse_raises(row) == EpisodesRaise(safe_json_loads(row.seasons, Null))

\* parse_media_row(row), for the row stored under id
parse_media_row(id, row) ==
    [id |-> id,
     type |-> row.type,
     title |-> row.title,
     description |-> row.description,
     release_date |-> format_date_for_input(row.release_date),
     rating |-> row.rating,
     cast_members |-> safe_json_loads(row.cast_members, EmptyList),
     video_links |-> safe_json_loads(row.video_links, EmptyDict),
     download_links |-> safe_json_loads(row.download_links, EmptyDict),
     telegram_links |-> safe_json_loads(row.telegram_links, EmptyDict),
     total_seasons |-> row.total_seasons,
     seasons |-> MapEpisodes(safe_json_loads(row.seasons, Null), "parse"),
     genres |-> safe_json_loads_text(row.genres, PyList(<<>>)),
     file_type |-> row.file_type,
     source_type |-> row.source_type,
     youtube_trailer |-> row.youtube_trailer,
     screenshots_720p |->
         safe_json_loads_text(row.screenshots_720p, PyList(<<>>)),
     subtitles |-> safe_json_loads(row.subtitles, DefaultSubtitles)]

-----------------------------------------------------------------------------
(* Basic authentication.  An Authorization header is [present, parts,      *)
(* auth_type, b64, colon, username, password]: parts is the number of      *)
(* blank-separated words, b64 whether the second word decodes, colon       *)
(* whether the decoded text has a ':'.                                     *)

ADMIN_USERNAME == "venura"
ADMIN_PASSWORD == "venura"

\* check_password_hash(generate_password_hash(ADMIN_PASSWORD), password)
check_password_hash(password) == password = ADMIN_PASSWORD

check_auth(username, password) ==
    username = ADMIN_USERNAME /\ check_password_hash(password)

\* auth_type.lower(), on the scheme names enumerated
Lower(auth_type) ==
    CASE auth_type \in {"Basic", "BASIC", "basic"} -> "basic"
      [] auth_type \in {"Bearer", "bearer"} -> "bearer"
      [] OTHER -> auth_type

\* requires_auth without the test of line 93: any scheme is taken for Basic
requires_auth_any_scheme(header) ==
    IF ~header.present THEN "Authorization Required"
    ELSE IF /\ header.parts = 2
            /\ header.b64
            /\ header.colon
            /\ check_auth(header.username, header.password)
    THEN "run"
    ELSE "Authorization Failed"

\* requires_auth: "run" (the wrapped handler is called), or the 401 message
requires_auth(header) ==
    IF ~header.present THEN "Authorization Required"
    ELSE IF /\ header.parts = 2
            /\ Lower(header.auth_type) = "basic"
            /\ header.b64
            /\ header.colon
            /\ check_auth(header.username, header.password)
    THEN "run"
    ELSE "Authorization Failed"

-----------------------------------------------------------------------------
(* Handlers.  Each handler is an operator from the relation and the        *)
(* request to [status, msg, media, nextId, conn, out]: the response, the   *)
(* relation after the request, whether get_db handed out a connection, and *)
(* the body returned (NoOut when the response is a message only).          *)
(* fault is what the database does to this request: "none", "conn" (no     *)
(* connection: get_db returns an error) or "stmt" (the statement raises    *)
(* psycopg2.DatabaseError).  An exception no handler catches ends in       *)
(* Flask's 500 response.                                                   *)

Faults == {"none", "conn", "stmt"}

NoOut == [k |-> "none"]

Reply(status, msg, store, next, conn, out) ==
    [status |-> status, msg |-> msg, media |-> store, nextId |-> next,
     conn |-> conn, out |-> out]

ConnError(store, next) ==
    Reply(500, "Database connection error", store, next, FALSE, NoOut)

Uncaught(store, next) ==
    Reply(500, "Internal server error", store, next, TRUE, NoOut)

\* INSERT ... RETURNING id
InsertRow(store, next, row) ==
    [i \in DOMAIN store \cup {next} |-> IF i = next THEN row ELSE store[i]]

\* an UPDATE that writes rating = COALESCE(new, rating): a rating sent empty
\* keeps the stored one
SetColumnsCoalesce(store, media_id, row) ==
    [i \in DOMAIN store |->
        IF i = media_id
        THEN [row EXCEPT !.rating = IF row.rating = PyNone
                                    THEN store[i].rating ELSE row.rating]
        ELSE store[i]]

\* UPDATE media SET column = value WHERE id = media_id
SetColumns(store, media_id, row) ==
    [i \in DOMAIN store |-> IF i = media_id THEN row ELSE store[i]]

\* a DELETE whose WHERE clause matches no row
DeleteRowNone(store, media_id) == store

\* DELETE FROM media WHERE id = media_id
DeleteRow(store, media_id) ==
    [i \in DOMAIN store \ {media_id} |-> store[i]]

\* not data or not data.get('title')
TitleMissing(data) == ~Truthy(Get(data.title))

\* add_media, lines 590-648
add_media(store, next, data, fault) ==
    IF TitleMissing(data)
    THEN Reply(400, "Title is required", store, next, FALSE, NoOut)
    ELSE IF fault = "conn" THEN ConnError(store, next)
    ELSE IF prepare_raises(data) THEN Uncaught(store, next)
    ELSE IF fault = "stmt"
    THEN Reply(400, "Error adding media", store, next, TRUE, NoOut)
    ELSE Reply(201, "Media added successfully",
               InsertRow(store, next, RowOf(prepare_media_data(data))),
               next + 1, TRUE, [k |-> "id", id |-> next])

\* update_media, lines 652-712
update_media(store, next, media_id, data, fault) ==
    IF TitleMissing(data)
    THEN Reply(400, "Title is required", store, next, FALSE, NoOut)
    ELSE IF fault = "conn" THEN ConnError(store, next)
    ELSE IF prepare_raises(data) THEN Uncaught(store, next)
    ELSE IF fault = "stmt"
    THEN Reply(400, "Error updating media", store, next, TRUE, NoOut)
    ELSE IF media_id \notin DOMAIN store
    THEN Reply(404, "Media not found", store, next, TRUE, NoOut)
    ELSE Reply(200, "Media updated successfully",
               SetColumns(store, media_id, RowOf(prepare_media_data(data))),
               next, TRUE, NoOut)

\* delete_media, lines 785-802
delete_media(store, next, media_id, fault) ==
    IF fault = "conn" THEN ConnError(store, next)
    ELSE IF fault = "stmt"
    THEN Reply(400, "Error deleting media", store, next, TRUE, NoOut)
    ELSE IF media_id \notin DOMAIN store
    THEN Reply(404, "Media not found", store, next, TRUE, NoOut)
    ELSE Reply(200, "Media deleted successfully",
               DeleteRow(store, media_id), next, TRUE, NoOut)

\* get_single_media, lines 536-555
get_single_media(store, next, media_id, fault) ==
    IF fault = "conn" THEN ConnError(store, next)
    ELSE IF fault = "stmt"
    THEN Reply(500, "Database error", store, next, TRUE, NoOut)
    ELSE IF media_id \notin DOMAIN store
    THEN Reply(404, "Media not found", store, next, TRUE, NoOut)
    ELSE IF parse_raises(store[media_id]) THEN Uncaught(store, next)
    ELSE Reply(200, "", store, next, TRUE,
               [k |-> "record", v |-> parse_media_row(media_id, store[media_id])])

RECURSIVE NewestFirst(_, _)
\* SELECT * FROM media ORDER BY id DESC, each row parsed
NewestFirst(store, ids) ==
    IF ids = {} THEN <<>>
    ELSE LET top == CHOOSE i \in ids : \A j \in ids : j <= i
         IN <<parse_media_row(top, store[top])>>
                \o NewestFirst(store, ids \ {top})

\* get_all_media, lines 516-533
get_all_media(store, next, fault) ==
    IF fault = "conn" THEN ConnError(store, next)
    ELSE IF fault = "stmt"
    THEN Reply(500, "Database error", store, next, TRUE, NoOut)
    ELSE IF \E i \in DOMAIN store : parse_raises(store[i])
    THEN Uncaught(store, next)
    ELSE Reply(200, "", store, next, TRUE,
               [k |-> "list", v |-> NewestFirst(store, DOMAIN store)])

-----------------------------------------------------------------------------
(* Episodes and subtitles.  An episode request `data` has the keys         *)
(* season_number, episode_number, episode_name, video_links,               *)
(* english_subtitles, sinhala_subtitles; a subtitle request has english,   *)
(* sinhala, season_number, episode_number.                                 *)

\* the SELECT without AND type = 'tv'
IsAnyRecord(store, media_id) == media_id \in DOMAIN store

\* SELECT ... FROM media WHERE id = media_id AND type = 'tv' finds a row
IsTv(store, media_id) ==
    media_id \in DOMAIN store /\ store[media_id].type = "tv"

\* data.get('video_links', {}) is something .get can be called on
HasGet(links) ==
    links.py = "missing" \/ (links.py = "native" /\ links.v.k = "dict")

\* data.get('video_links', {}).get('video_<q>'), for each quality
EpisodeVideo(links) ==
    [q \in Qualities |->
        IF links.py = "missing" THEN PyNone ELSE DictGet(links.v.m, q, PyNone)]

\* lines 736-758: episode_data
episode_data(data) ==
    Episode(Get(data.episode_number), Get(data.episode_name),
            EpisodeVideo(data.video_links),
            Dict([lang \in Languages |->
                    parse_subtitle_input(
                        GetD(IF lang = "english" THEN data.english_subtitles
                             ELSE data.sinhala_subtitles, PyStr(<<>>)))]))

\* lines 760-769 raise: the seasons value is no dict, or the bucket has no
\* episode list
AppendRaises(current_seasons, data) ==
    \/ ~HasGet(data.video_links)
    \/ current_seasons.k # "dict"
    \/ /\ season_key(Get(data.season_number)) \in DOMAIN current_seasons.m
       /\ current_seasons.m[season_key(Get(data.season_number))].ek # "list"

\* lines 760-768 without line 769: total_episodes is not recomputed
AppendEpisodeStaleTotal(current_seasons, data) ==
    LET key == season_key(Get(data.season_number))
        bucket == DictGet(current_seasons.m, key,
                          Bucket(Get(data.season_number), PyNum(0), <<>>))
    IN Dict(DictSet(current_seasons.m, key,
                    [bucket EXCEPT !.episodes =
                        Append(bucket.episodes, episode_data(data))]))

\* lines 760-769: the seasons map with the episode appended
AppendEpisode(current_seasons, data) ==
    LET key == season_key(Get(data.season_number))
        bucket == DictGet(current_seasons.m, key,
                          Bucket(Get(data.season_number), PyNum(0), <<>>))
        episodes == Append(bucket.episodes, episode_data(data))
    IN Dict(DictSet(current_seasons.m, key,
                    [bucket EXCEPT !.episodes = episodes,
                                   !.total_episodes = PyNum(Len(episodes))]))

\* not data, for a request body all of whose keys are missing
EmptyBody(data) ==
    \A f \in DOMAIN data : data[f] \in {Missing, MissingJ}

\* add_episode, lines 716-781
add_episode(store, next, media_id, data, fault) ==
    IF EmptyBody(data)
    THEN Reply(400, "Episode data is required", store, next, FALSE, NoOut)
    ELSE IF fault = "conn" THEN ConnError(store, next)
    ELSE IF fault = "stmt"
    THEN Reply(400, "Error adding episode", store, next, TRUE, NoOut)
    ELSE IF ~IsTv(store, media_id)
    THEN Reply(404, "TV series not found", store, next, TRUE, NoOut)
    ELSE LET current_seasons ==
                 safe_json_loads(store[media_id].seasons, EmptyDict)
         IN IF AppendRaises(current_seasons, data) THEN Uncaught(store, next)
            ELSE Reply(200, "Episode added successfully",
                       SetColumns(store, media_id,
                           [store[media_id] EXCEPT !.seasons =
                               json_dumps(AppendEpisode(current_seasons, data))]),
                       next, TRUE, NoOut)

\* the subtitles built from a subtitle request
new_subtitles(data) ==
    Dict([lang \in Languages |->
            parse_subtitle_input(
                GetD(IF lang = "english" THEN data.english ELSE data.sinhala,
                     PyList(<<>>)))])

\* index of the first episode whose episode_number equals the one asked
\* for, 0 when there is none
FirstMatch(episodes, episode_number) ==
    LET hits == {i \in 1..Len(episodes) :
                    /\ episodes[i].k = "dict"
                    /\ episodes[i].episode_number = episode_number}
    IN IF hits = {} THEN 0 ELSE CHOOSE i \in hits : \A j \in hits : i <= j

\* the scan calls .get on an entry that is no dict
ScanRaises(episodes, episode_number) ==
    LET stop == IF FirstMatch(episodes, episode_number) = 0
                THEN Len(episodes) ELSE FirstMatch(episodes, episode_number)
    IN \E i \in 1..stop : episodes[i].k # "dict"

\* a loop without the break: every episode with that number is replaced
ReplaceEveryMatch(episodes, episode_number, subtitles) ==
    [i \in 1..Len(episodes) |->
        IF episodes[i].k = "dict" /\ episodes[i].episode_number = episode_number
        THEN [episodes[i] EXCEPT !.subtitles = subtitles]
        ELSE episodes[i]]

\* the for loop of lines 847-853 and 907-914
ReplaceInEpisodes(episodes, episode_number, subtitles) ==
    LET hit == FirstMatch(episodes, episode_number)
    IN [i \in 1..Len(episodes) |->
           IF i = hit THEN [episodes[i] EXCEPT !.subtitles = subtitles]
           ELSE episodes[i]]

\* the seasons map with the subtitles of the episode replaced
ReplaceInSeasons(current_seasons, key, episode_number, subtitles) ==
    Dict([x \in DOMAIN current_seasons.m |->
            IF x = key
            THEN [current_seasons.m[x] EXCEPT !.episodes =
                     ReplaceInEpisodes(current_seasons.m[x].episodes,
                                       episode_number, subtitles)]
            ELSE current_seasons.m[x]])

\* season_key in current_seasons raises: the seasons value is None or a number
InRaises(current_seasons) == current_seasons.k \in {"none", "num"}

\* season_key in current_seasons and 'episodes' in current_seasons[season_key]
HasEpisodes(current_seasons, key) ==
    /\ current_seasons.k = "dict"
    /\ key \in DOMAIN current_seasons.m
    /\ current_seasons.m[key].ek # "missing"

\* the tv branch with season and episode given, lines 843-858
tv_episode_scope(store, next, media_id, data) ==
    LET current_seasons == safe_json_loads(store[media_id].seasons, EmptyDict)
        key == season_key(data.season_number)
        found == HasEpisodes(current_seasons, key)
    IN IF InRaises(current_seasons) THEN Uncaught(store, next)
       ELSE IF found /\ (\/ current_seasons.m[key].ek # "list"
                         \/ ScanRaises(current_seasons.m[key].episodes,
                                       data.episode_number))
       THEN Uncaught(store, next)
       ELSE Reply(200, "Subtitles updated successfully",
                  SetColumns(store, media_id,
                      [store[media_id] EXCEPT !.seasons = json_dumps(
                          IF found
                          THEN ReplaceInSeasons(current_seasons, key,
                                   data.episode_number, new_subtitles(data))
                          ELSE current_seasons)]),
                  next, TRUE, NoOut)

\* lines 829-837 and 860-868: the record's own subtitles are replaced
record_scope(store, next, media_id, data) ==
    Reply(200, "Subtitles updated successfully",
          SetColumns(store, media_id,
              [store[media_id] EXCEPT !.subtitles =
                  json_dumps(new_subtitles(data))]),
          next, TRUE, NoOut)

\* update_media_subtitles, lines 807-875
update_media_subtitles(store, next, media_id, data, fault) ==
    IF EmptyBody(data)
    THEN Reply(400, "Subtitle data is required", store, next, FALSE, NoOut)
    ELSE IF fault = "conn" THEN ConnError(store, next)
    ELSE IF fault = "stmt"
    THEN Reply(400, "Error updating subtitles", store, next, TRUE, NoOut)
    ELSE IF media_id \notin DOMAIN store
    THEN Reply(404, "Media not found", store, next, TRUE, NoOut)
    ELSE IF store[media_id].type = "movie"
    THEN record_scope(store, next, media_id, data)
    ELSE IF store[media_id].type = "tv"
    THEN IF Get(data.season_number).k # "none"
            /\ Get(data.episode_number).k # "none"
         THEN tv_episode_scope(store, next, media_id, data)
         ELSE record_scope(store, next, media_id, data)
    ELSE Reply(200, "Subtitles updated successfully", store, next, TRUE, NoOut)

\* update_episode_subtitles, lines 879-929; season_number is the query
\* argument read with type=int: PyNone when it is not given
update_episode_subtitles(store, next, media_id, episode_number, season_number, data, fault) ==
    IF EmptyBody(data) \/ season_number.k = "none"
    THEN Reply(400, "Season number and subtitle data are required",
               store, next, FALSE, NoOut)
    ELSE IF fault = "conn" THEN ConnError(store, next)
    ELSE IF fault = "stmt"
    THEN Reply(400, "Error updating episode subtitles", store, next, TRUE, NoOut)
    ELSE IF ~IsTv(store, media_id)
    THEN Reply(404, "TV series not found", store, next, TRUE, NoOut)
    ELSE LET current_seasons ==
                 safe_json_loads(store[media_id].seasons, EmptyDict)
             key == season_key(season_number)
         IN IF InRaises(current_seasons) THEN Uncaught(store, next)
            ELSE IF ~HasEpisodes(current_seasons, key)
            THEN Reply(404, "Season or episode not found",
                       store, next, TRUE, NoOut)
            ELSE IF \/ current_seasons.m[key].ek # "list"
                    \/ ScanRaises(current_seasons.m[key].episodes,
                                  episode_number)
            THEN Uncaught(store, next)
            ELSE IF FirstMatch(current_seasons.m[key].episodes,
                               episode_number) = 0
            THEN Reply(404, "Episode not found", store, next, TRUE, NoOut)
            ELSE Reply(200, "Episode subtitles updated successfully",
                       SetColumns(store, media_id,
                           [store[media_id] EXCEPT !.seasons = json_dumps(
                               ReplaceInSeasons(current_seasons, key,
                                   episode_number, new_subtitles(data)))]),
                       next, TRUE, NoOut)

\* functools.lru_cache, lines 104 and 160.  entries are the results kept,
\* the least recently used first, each [key, result] with key the tuple of
\* arguments.  A call whose key is kept returns the kept result without
\* running the function and makes the entry the most recently used; any
\* other call runs the function, and keeps what it returns (None too) in
\* place of the least recently used entry when maxsize entries are kept.
\* What the function raises is kept nowhere.
TmdbMaxsize == 256

GenresMaxsize == 10

NoCaches == [tmdb |-> <<>>, genres |-> <<>>]

Cached(entries, key) == \E i \in 1..Len(entries) : entries[i].key = key

Position(entries, key) == CHOOSE i \in 1..Len(entries) : entries[i].key = key

Without(entries, i) ==
    [j \in 1..(Len(entries) - 1) |->
        IF j < i THEN entries[j] ELSE entries[j + 1]]

\* a cache in which a call whose key is kept leaves the order as it is
lru_cache_fifo(entries, key, maxsize, raises, result) ==
    IF Cached(entries, key)
    THEN [entries |-> entries,
          result |-> entries[Position(entries, key)].result,
          raised |-> FALSE, called |-> FALSE]
    ELSE IF raises
    THEN [entries |-> entries, result |-> result, raised |-> TRUE,
          called |-> TRUE]
    ELSE [entries |-> Append(IF Len(entries) >= maxsize THEN Tail(entries)
                             ELSE entries,
                             [key |-> key, result |-> result]),
          result |-> result, raised |-> FALSE, called |-> TRUE]

\* raises and result are what the function does when it is run
lru_cache(entries, key, maxsize, raises, result) ==
    IF Cached(entries, key)
    THEN LET i == Position(entries, key)
         IN [entries |-> Append(Without(entries, i), entries[i]),
             result |-> entries[i].result, raised |-> FALSE, called |-> FALSE]
    ELSE IF raises
    THEN [entries |-> entries, result |-> result, raised |-> TRUE,
          called |-> TRUE]
    ELSE [entries |-> Append(IF Len(entries) >= maxsize THEN Tail(entries)
                             ELSE entries,
                             [key |-> key, result |-> result]),
          result |-> result, raised |-> FALSE, called |-> TRUE]

\* a reply together with the caches after the request and whether the
\* request sent a lookup to the provider
CachedReply(r, caches, called) ==
    [status |-> r.status, msg |-> r.msg, media |-> r.media,
     nextId |-> r.nextId, conn |-> r.conn, out |-> r.out, cache |-> caches,
     called |-> called]

\* the body of fetch_tmdb_data, lines 105-158; provider is what the provider
\* does with the lookup: "ok" (status 200 and a full body), "status"
\* (another status), "timeout" (requests.RequestException) or "partial"
\* (status 200 and a body without 'credits').  The result is "data"
\* (processed_data), "none" (None) or "raise" (the KeyError of line 120,
\* which the except clause of line 157 does not name).
fetch_tmdb_data(tmdb_id, media_type, provider) ==
    IF media_type \notin {"movie", "tv"} THEN "none"
    ELSE CASE provider = "ok" -> "data"
           [] provider = "partial" -> "raise"
           [] OTHER -> "none"

\* tmdb_fetch_api, lines 574-586, with fetch_tmdb_data called through its
\* cache; it has no try, so what fetch_tmdb_data raises ends in the 500
\* response
tmdb_fetch_api(store, next, caches, maxsize, tmdb_id, media_type, provider) ==
    IF ~Truthy(tmdb_id) \/ media_type \in {AMissing, ANone}
    THEN CachedReply(Reply(400, "TMDB ID and media type are required", store,
                           next, FALSE, NoOut), caches, FALSE)
    ELSE LET outcome == fetch_tmdb_data(tmdb_id, media_type, provider)
             c == lru_cache(caches.tmdb, <<tmdb_id, media_type>>, maxsize,
                            outcome = "raise", outcome)
             after == [caches EXCEPT !.tmdb = c.entries]
             called == c.called /\ media_type \in {"movie", "tv"}
         IN IF c.raised
            THEN CachedReply(Reply(500, "Internal server error", store, next,
                                   FALSE, NoOut), after, called)
            ELSE IF c.result = "data"
            THEN CachedReply(Reply(200, "", store, next, FALSE,
                                   [k |-> "tmdb", media_type |-> media_type,
                                    file_type |-> "webrip",
                                    source_type |-> "original"]),
                             after, called)
            ELSE CachedReply(Reply(404, "Failed to fetch data from TMDB",
                                   store, next, FALSE, NoOut), after, called)

\* the genre names the provider lists for a type
GenreNames(media_type) ==
    IF media_type = "movie" THEN {"Action", "Drama"} ELSE {"Drama", "Reality"}

\* the body of fetch_genres, lines 161-169: the names, () when the lookup
\* fails; a body whose genres lack 'name' ("partial") raises KeyError
fetch_genres(media_type, provider) ==
    IF provider = "ok" THEN GenreNames(media_type) ELSE {}

\* get_all_genres, lines 558-569, with fetch_genres called through its
\* cache; movie and tv are what the provider does with the two lookups.
\* The lookup for tv is not made when the one for movie raises.
get_all_genres(store, next, caches, movie, tv) ==
    LET m == lru_cache(caches.genres, <<"movie">>, GenresMaxsize,
                       movie = "partial", fetch_genres("movie", movie))
        t == lru_cache(m.entries, <<"tv">>, GenresMaxsize,
                       tv = "partial", fetch_genres("tv", tv))
    IN IF m.raised
       THEN CachedReply(Reply(500, "Error fetching genres", store, next, FALSE,
                              NoOut),
                        [caches EXCEPT !.genres = m.entries], m.called)
       ELSE IF t.raised
       THEN CachedReply(Reply(500, "Error fetching genres", store, next, FALSE,
                              NoOut),
                        [caches EXCEPT !.genres = t.entries], TRUE)
       ELSE CachedReply(Reply(200, "", store, next, FALSE,
                              [k |-> "genres", v |-> m.result \cup t.result]),
                        [caches EXCEPT !.genres = t.entries],
                        m.called \/ t.called)

\* the static admin pages (/admin, /admin/add_movie, /admin/add_tv,
\* /admin/search_and_edit, /admin/edit), lines 469-492
admin_page(store, next) == Reply(200, "", store, next, FALSE, NoOut)

\* add_episode_page, lines 496-512; media_id is the query argument, PyNone
\* when it is not given
add_episode_page(store, next, media_id, fault) ==
    IF ~Truthy(media_id)
    THEN Reply(400, "Media ID required", store, next, FALSE, NoOut)
    ELSE IF fault = "conn"
    THEN Reply(500, "Database error", store, next, FALSE, NoOut)
    ELSE IF fault = "stmt" THEN Uncaught(store, next)
    ELSE IF ~IsTv(store, media_id.n)
    THEN Reply(404, "TV series not found", store, next, TRUE, NoOut)
    ELSE Reply(200, "", store, next, TRUE,
               [k |-> "page", id |-> media_id.n,
                title |-> store[media_id.n].title])

-----------------------------------------------------------------------------
(* The service.                                                            *)
(*   media   the media relation: a function from the ids in use to rows    *)
(*   nextId  the next value of the id sequence                             *)
(*   req     the request served last: [op, id, auth, data, fault]; auth is *)
(*           "public" for an endpoint without requires_auth                *)
(*   resp    its response: [status, msg, conn, out]                        *)
(*   inflight  the requests being served step by step, one per worker      *)
(*   pool    the number of connections checked out of connection_pool      *)
(*   cache   the entries lru_cache keeps for fetch_tmdb_data (tmdb) and    *)
(*           for fetch_genres (genres), the least recently used first      *)

VARIABLES media, nextId, req, resp, inflight, pool, cache

vars == <<media, nextId, req, resp, inflight, pool, cache>>

NoData == [k |-> "none"]

Init ==
    /\ media = <<>>
    /\ nextId = 1
    /\ req = [op |-> "none", id |-> 0, auth |-> "public", data |-> NoData,
              fault |-> "none"]
    /\ resp = [status |-> 0, msg |-> "", conn |-> FALSE, out |-> NoOut]
    /\ inflight = <<>>
    /\ pool = 0
    /\ cache = NoCaches

\* the request is served: the handler's reply r becomes the state, and
\* caches the caches
ServeWith(op, id, auth, data, fault, r, caches) ==
    /\ media' = r.media
    /\ nextId' = r.nextId
    /\ req' = [op |-> op, id |-> id, auth |-> auth, data |-> data,
               fault |-> fault]
    /\ resp' = [status |-> r.status, msg |-> r.msg, conn |-> r.conn,
                out |-> r.out]
    /\ cache' = caches
    /\ UNCHANGED <<inflight, pool>>

\* a request served by a handler that calls no cached function
Serve(op, id, auth, data, fault, r) ==
    ServeWith(op, id, auth, data, fault, r, cache)

\* lines 89-90 and 100: the 401 response of requires_auth; of a rejected
\* request req keeps the endpoint and the outcome of requires_auth
Reject(op, msg) ==
    Serve(op, 0, msg, NoData, "none",
          Reply(401, msg, media, nextId, FALSE, NoOut))

-----------------------------------------------------------------------------
(* Requests *)

Header(parts, auth_type, b64, colon, username, password) ==
    [present |-> TRUE, parts |-> parts, auth_type |-> auth_type, b64 |-> b64,
     colon |-> colon, username |-> username, password |-> password]

NoHeader ==
    [present |-> FALSE, parts |-> 0, auth_type |-> "", b64 |-> FALSE,
     colon |-> FALSE, username |-> "", password |-> ""]

AuthHeaders ==
    {NoHeader,
     Header(1, "Basic", FALSE, FALSE, "", ""),
     Header(3, "Basic", TRUE, TRUE, "venura", "venura"),
     Header(2, "Bearer", TRUE, TRUE, "venura", "venura"),
     Header(2, "Basic", FALSE, FALSE, "", ""),
     Header(2, "Basic", TRUE, FALSE, "", ""),
     Header(2, "Basic", TRUE, TRUE, "admin", "venura"),
     Header(2, "Basic", TRUE, TRUE, "venura", "admin"),
     Header(2, "Basic", TRUE, TRUE, "venura", "venura"),
     Header(2, "BASIC", TRUE, TRUE, "venura", "venura")}

\* a request body with no key
NoKeys ==
    [type |-> AMissing, title |-> Missing, description |-> Missing,
     release_date |-> Missing, rating |-> Missing, total_seasons |-> Missing,
     cast_members |-> MissingJ, video_links |-> MissingJ,
     video |-> [q \in Qualities |-> Missing],
     tv_video |-> [q \in Qualities |-> Missing],
     download_links |-> MissingJ, download |-> [q \in Qualities |-> Missing],
     telegram_links |-> MissingJ, telegram |-> [q \in Qualities |-> Missing],
     seasons |-> MissingJ, genres |-> Missing, file_type |-> AMissing,
     source_type |-> AMissing, youtube_trailer |-> Missing,
     screenshots_720p |-> Missing,
     subtitles |-> MissingJ, english_subtitles |-> Missing,
     sinhala_subtitles |-> Missing]

\* {type: movie, title: "X", rating: "7.5"}
MovieX ==
    [NoKeys EXCEPT !.type = "movie", !.title = PyStr(<<"X">>),
                   !.rating = PyStr(<<"7", ".", "5">>)]

\* {type: tv, title: "Y"}
TvY == [NoKeys EXCEPT !.type = "tv", !.title = PyStr(<<"Y">>)]

\* an episode request with no key
NoEpisodeKeys ==
    [season_number |-> Missing, episode_number |-> Missing,
     episode_name |-> Missing, video_links |-> MissingJ,
     english_subtitles |-> Missing, sinhala_subtitles |-> Missing]

EpisodeReq(season, number) ==
    [NoEpisodeKeys EXCEPT !.season_number = PyNum(season),
                          !.episode_number = PyNum(number)]

\* a lookup request {tmdb_id, media_type}
Lookup(tmdb_id, media_type) == [tmdb_id |-> tmdb_id, media_type |-> media_type]

\* what the provider does with a lookup; a timeout is answered as another
\* status is
Providers == {"ok", "status", "partial"}

\* a subtitle request with no key
NoSubtitleKeys ==
    [english |-> Missing, sinhala |-> Missing, season_number |-> Missing,
     episode_number |-> Missing]

RECURSIVE CountEpisodes(_, _)
CountEpisodes(m, keys) ==
    IF keys = {} THEN 0
    ELSE LET key == CHOOSE x \in keys : TRUE
         IN (IF m[key].ek = "list" THEN Len(m[key].episodes) ELSE 0)
                + CountEpisodes(m, keys \ {key})

\* the number of episodes the row under media_id holds
EpisodesOf(store, media_id) ==
    IF media_id \in DOMAIN store
    THEN LET seasons == safe_json_loads(store[media_id].seasons, EmptyDict)
         IN IF seasons.k = "dict"
            THEN CountEpisodes(seasons.m, DOMAIN seasons.m) ELSE 0
    ELSE 0

-----------------------------------------------------------------------------
(* One action per endpoint.  P says which requests arrive: P.headers,      *)
(* P.faults, P.ids (the ids asked for), P.bodies (add-media), P.updates    *)
(* (update), P.episodes, P.subtitles, P.lookups and P.providers (the       *)
(* provider lookups and what the provider does), and the sizes P.maxid     *)
(* (ids the sequence hands out) and P.maxepisodes (episodes appended to a  *)
(* record).                                                                *)

\* the 401 messages the headers draw from requires_auth
Rejections(headers) == {requires_auth(header) : header \in headers} \ {"run"}

\* some header passes requires_auth
Admitted(headers) == \E header \in headers : requires_auth(header) = "run"

AddMedia(P) ==
    /\ nextId <= P.maxid
    /\ \/ \E msg \in Rejections(P.headers) : Reject("add_media", msg)
       \/ /\ Admitted(P.headers)
          /\ \E data \in P.bodies, fault \in P.faults :
                Serve("add_media", 0, "run", data, fault,
                      add_media(media, nextId, data, fault))

UpdateMedia(P) ==
    \/ \E msg \in Rejections(P.headers) : Reject("update_media", msg)
    \/ /\ Admitted(P.headers)
       /\ \E media_id \in P.ids :
              /\ \E data \in P.updates, fault \in P.faults :
                    Serve("update_media", media_id, "run", data, fault,
                          update_media(media, nextId, media_id, data, fault))

DeleteMedia(P) ==
    \/ \E msg \in Rejections(P.headers) : Reject("delete_media", msg)
    \/ /\ Admitted(P.headers)
       /\ \E media_id \in P.ids :
              /\ \E fault \in P.faults :
                    Serve("delete_media", media_id, "run", NoData, fault,
                          delete_media(media, nextId, media_id, fault))

GetSingleMedia(P) ==
    \E media_id \in P.ids, fault \in P.faults :
        Serve("get_single_media", media_id, "public", NoData, fault,
              get_single_media(media, nextId, media_id, fault))

GetAllMedia(P) ==
    \E fault \in P.faults :
        Serve("get_all_media", 0, "public", NoData, fault,
              get_all_media(media, nextId, fault))

AddEpisode(P) ==
    \/ \E msg \in Rejections(P.headers) : Reject("add_episode", msg)
    \/ /\ Admitted(P.headers)
       /\ \E media_id \in P.ids :
              /\ EpisodesOf(media, media_id) < P.maxepisodes
              /\ \E data \in P.episodes, fault \in P.faults :
                    Serve("add_episode", media_id, "run", data, fault,
                          add_episode(media, nextId, media_id, data, fault))

UpdateMediaSubtitles(P) ==
    \/ \E msg \in Rejections(P.headers) : Reject("update_media_subtitles", msg)
    \/ /\ Admitted(P.headers)
       /\ \E media_id \in P.ids :
              /\ \E data \in P.subtitles, fault \in P.faults :
                    Serve("update_media_subtitles", media_id, "run", data, fault,
                          update_media_subtitles(media, nextId, media_id, data,
                                                 fault))

\* data carries the path argument episode_number and the query argument
\* season_number next to the body's english and sinhala
UpdateEpisodeSubtitles(P) ==
    \/ \E msg \in Rejections(P.headers) : Reject("update_episode_subtitles", msg)
    \/ /\ Admitted(P.headers)
       /\ \E media_id \in P.ids :
              /\ \E data \in P.subtitles, fault \in P.faults :
                    /\ data.episode_number.k = "num"
                    /\ Serve("update_episode_subtitles", media_id, "run", data,
                             fault,
                             update_episode_subtitles(media, nextId, media_id,
                                 data.episode_number, Get(data.season_number),
                                 [data EXCEPT !.season_number = Missing,
                                              !.episode_number = Missing],
                                 fault))

TmdbFetchApi(P) ==
    \/ \E msg \in Rejections(P.headers) : Reject("tmdb_fetch_api", msg)
    \/ /\ Admitted(P.headers)
       /\ \E data \in P.lookups, provider \in P.providers :
             LET r == tmdb_fetch_api(media, nextId, cache, P.maxsize,
                                     Get(data.tmdb_id), data.media_type,
                                     provider)
             IN ServeWith("tmdb_fetch_api", 0, "run",
                          [tmdb_id |-> data.tmdb_id,
                           media_type |-> data.media_type,
                           provider |-> provider, called |-> r.called],
                          "none", r, r.cache)

GetAllGenres(P) ==
    \E movie \in P.providers, tv \in P.providers :
        LET r == get_all_genres(media, nextId, cache, movie, tv)
        IN ServeWith("get_all_genres", 0, "public",
                     [movie |-> movie, tv |-> tv, called |-> r.called],
                     "none", r, r.cache)

AdminPage(P) ==
    \/ \E msg \in Rejections(P.headers) : Reject("admin_page", msg)
    \/ /\ Admitted(P.headers)
       /\ Serve("admin_page", 0, "run", NoData, "none",
                admin_page(media, nextId))

AddEpisodePage(P) ==
    \/ \E msg \in Rejections(P.headers) : Reject("add_episode_page", msg)
    \/ /\ Admitted(P.headers)
       /\ \E media_id \in P.ids \cup {0} :
              /\ \E fault \in P.faults :
                    Serve("add_episode_page", media_id, "run", NoData, fault,
                          add_episode_page(media, nextId,
                              IF media_id = 0 THEN PyNone ELSE PyNum(media_id),
                              fault))

\* the requests on the media relation and the admin pages; get_all_genres,
\* which reads the provider only, is followed with the lookups
Requests(P) ==
    \/ AddMedia(P)
    \/ UpdateMedia(P)
    \/ DeleteMedia(P)
    \/ GetSingleMedia(P)
    \/ GetAllMedia(P)
    \/ AddEpisode(P)
    \/ UpdateMediaSubtitles(P)
    \/ UpdateEpisodeSubtitles(P)
    \/ TmdbFetchApi(P)
    \/ AdminPage(P)
    \/ AddEpisodePage(P)

-----------------------------------------------------------------------------
(* The catalog: MaxId records, every header, a few bodies. *)

MaxId == 2
MaxEpisodes == 2

S1(c) == PyStr(<<c>>)

CatalogBodies ==
    {MovieX,
     [MovieX EXCEPT !.rating = PyStr(<<>>)],
     TvY,
     [NoKeys EXCEPT !.type = "movie"]}

Catalog ==
    [headers |-> AuthHeaders,
     faults |-> {"none"},
     ids |-> 1..(MaxId + 1),
     maxid |-> MaxId,
     maxepisodes |-> MaxEpisodes,
     bodies |-> CatalogBodies,
     updates |-> CatalogBodies,
     episodes |-> {EpisodeReq(1, 1), NoEpisodeKeys},
     subtitles |-> {[NoSubtitleKeys EXCEPT !.season_number = PyNum(2),
                                           !.episode_number = PyNum(1)]},
     lookups |-> {Lookup(Missing, "tv")},
     providers |-> {"ok"},
     maxsize |-> TmdbMaxsize]

Next == Requests(Catalog)

Spec == Init /\ [][Next]_vars

-----------------------------------------------------------------------------
(* One record, many request bodies: every key of the body takes the shapes *)
(* a client can send it in.                                                *)

GoodHeader == Header(2, "Basic", TRUE, TRUE, "venura", "venura")

Date10 == <<"2", "0", "2", "0", "-", "0", "1", "-", "0", "2">>
UrlA == <<"a">>
UrlB == <<"b">>

NoVideo == [q \in Qualities |-> PyNone]

\* a seasons value with one season, season_1, holding the episodes eps
OneSeason(eps) == Dict(1 :> Bucket(PyNum(1), PyNum(Len(eps)), eps))

\* episode 1 with the subtitles value subs
Ep1(subs) == Episode(PyNum(1), S1("e"), NoVideo, subs)

SeasonsValues ==
    {OneSeason(<<Ep1(NoKey)>>),
     OneSeason(<<Ep1(Null)>>),
     OneSeason(<<Ep1(ListOf("x"))>>),
     OneSeason(<<Ep1(Dict("english" :> PyList(<<UrlA>>)))>>),
     OneSeason(<<Ep1(DefaultSubtitles)>>),
     OneSeason(<<[Ep1(NoKey) EXCEPT !.k = "num"]>>),
     Dict(1 :> [Bucket(PyNum(1), PyNum(0), <<>>) EXCEPT !.ek = "missing"]),
     Dict(1 :> [Bucket(PyNum(1), PyNum(0), <<>>) EXCEPT !.ek = "other"]),
     EmptyDict,
     ListOf("x"),
     Null,
     StrOf("abc")}

SeasonsInputs ==
    {Native(v) : v \in SeasonsValues} \cup {Text(v) : v \in SeasonsValues}
        \cup {BadText, EmptyText, NoneJ}

LinkMap == Dict("720p" :> [url |-> S1("v"), file_type |-> NoFileType])

JsonInputs(v) ==
    {Native(v), Text(v), Native(ListOf("x")), Text(ListOf("x")),
     Native(EmptyDict), Text(EmptyDict), Text(StrOf("abc")), Text(NumOf("5")),
     Text(Null), BadText, EmptyText, NoneJ}

ListInputs ==
    {PyStr(<<"a", ",", " ", "b">>),
     PyStr(<<"a", ",", ",", " ", "b", " ">>),
     PyStr(JsonDumpsList(<<UrlA, UrlB>>)),
     PyStr(<<"[", "a", ",", "b", "]">>),
     PyStr(<<"[">>),
     PyList(<<UrlA, UrlB>>),
     PyList(<<>>),
     PyStr(<<>>),
     PyNone,
     PyObj,
     PyNum(5)}

SubtitleMaps ==
    {Dict("english" :> x) : x \in ListInputs}
        \cup {Dict(("english" :> PyList(<<UrlA>>)) @@ ("sinhala" :> S1("b")))}

\* youtube_trailer values: the four url forms, a bare id, and texts without id
WatchUrl ==
    <<"h", "t", "t", "p", "s", ":", "/", "/", "w", "w", "w", ".", "y", "o",
      "u", "t", "u", "b", "e", ".", "c", "o", "m", "/", "w", "a", "t", "c",
      "h", "?", "v", "=", "d", "Q", "w", "4", "w", "9", "W", "g", "X", "c",
      "Q", "&", "t", "=", "1">>

ShortUrl ==
    <<"h", "t", "t", "p", "s", ":", "/", "/", "y", "o", "u", "t", "u", ".",
      "b", "e", "/", "d", "Q", "w", "4", "w", "9", "W", "g", "X", "c", "Q">>

EmbedUrl ==
    <<"h", "t", "t", "p", "s", ":", "/", "/", "w", "w", "w", ".", "y", "o",
      "u", "t", "u", "b", "e", ".", "c", "o", "m", "/", "e", "m", "b", "e",
      "d", "/", "d", "Q", "w", "4", "w", "9", "W", "g", "X", "c", "Q">>

VUrl ==
    <<"y", "o", "u", "t", "u", "b", "e", ".", "c", "o", "m", "/", "v", "/",
      "d", "Q", "w", "4", "w", "9", "W", "g", "X", "c", "Q">>

VideoId ==
    <<"d", "Q", "w", "4", "w", "9", "W", "g", "X", "c", "Q">>

OtherUrl ==
    <<"h", "t", "t", "p", "s", ":", "/", "/", "v", "i", "m", "e", "o", ".",
      "c", "o", "m", "/", "1">>

ShortId ==
    <<"y", "o", "u", "t", "u", ".", "b", "e", "/", "a", "b", "c">>

TrailerInputs ==
    {PyStr(WatchUrl), PyStr(ShortUrl), PyStr(EmbedUrl), PyStr(VUrl),
     PyStr(VideoId), PyStr(<<" ">> \o VideoId \o <<" ">>),
     PyStr(VideoId \o <<"x">>), PyStr(SubSeq(VideoId, 1, IdLen - 1) \o <<"!">>),
     PyStr(OtherUrl), PyStr(ShortId), S1(" "), PyStr(<<>>), PyNone, PyNum(5),
     PyNum(0)}

RecordBodies ==
    {MovieX, TvY, NoKeys}
    \cup {[MovieX EXCEPT !.youtube_trailer = x] : x \in TrailerInputs}
    \cup {[MovieX EXCEPT !.title = x] :
             x \in {S1(" "), PyStr(<<" ", "X", " ">>), PyStr(<<>>), PyNone,
                    PyNum(7)}}
    \cup {[MovieX EXCEPT !.type = x] : x \in {AMissing, ANone, "series"}}
    \cup {[MovieX EXCEPT !.description = x] :
             x \in {S1("d"), PyStr(<<" ", "d">>), S1(" "), PyNone, PyNum(0)}}
    \cup {[MovieX EXCEPT !.release_date = x] :
             x \in {PyStr(Date10), PyStr(Date10 \o <<"T", "0", "9">>),
                    PyStr(<<"2", "0", "2", "0">>), S1(" "), PyNone}}
    \cup {[MovieX EXCEPT !.rating = x] :
             x \in {PyStr(<<>>), PyStr(<<"a", "b", "c">>), PyFloat(75, 1),
                    PyStr(<<"7", ".", "5", "0">>), S1("8"), PyNone,
                    PyList(<<UrlA>>)}}
    \cup {[TvY EXCEPT !.total_seasons = x] :
             x \in {S1("3"), S1("x"), PyNum(3), PyFloat(35, 1),
                    PyStr(<<"3", ".", "5">>), PyStr(<<>>), PyNone}}
    \cup {[MovieX EXCEPT !.cast_members = x] : x \in JsonInputs(ListOf("cast"))}
    \cup {[MovieX EXCEPT !.video_links = x] : x \in JsonInputs(LinkMap)}
    \cup {[MovieX EXCEPT !.video["720p"] = x] :
             x \in {S1("v"), PyStr(<<" ", "v", " ">>), S1(" ")}}
    \cup {[TvY EXCEPT !.tv_video["1080p"] = S1("t")],
          [TvY EXCEPT !.tv_video["1080p"] = S1("t"),
                      !.video["1080p"] = S1("v")]}
    \cup {[MovieX EXCEPT !.download_links = x] : x \in {Native(LinkMap), BadText}}
    \cup {[MovieX EXCEPT !.download["2160p"] = S1("d"), !.file_type = x] :
             x \in {AMissing, ANone, "bluray", "exe"}}
    \cup {[MovieX EXCEPT !.telegram_links = x] : x \in {Text(LinkMap), BadText}}
    \cup {[MovieX EXCEPT !.telegram["720p"] = S1("g")]}
    \cup {[TvY EXCEPT !.seasons = x] : x \in SeasonsInputs}
    \cup {[MovieX EXCEPT !.genres = x] :
             x \in {PyStr(<<"a", ",", " ", "b">>), PyStr(<<"a", ",", ",", "b">>),
                    PyStr(<<"a", Quote, ",", Backslash>>),
                    PyList(<<UrlA, UrlB>>), PyStr(<<>>), PyNone}}
    \cup {[MovieX EXCEPT !.file_type = x] : x \in {ANone, "bluray", "exe"}}
    \cup {[MovieX EXCEPT !.source_type = x] :
             x \in {ANone, "bluray", "web-dl", "exe"}}
    \cup {[MovieX EXCEPT !.screenshots_720p = x] : x \in ListInputs}
    \cup {[MovieX EXCEPT !.subtitles = Native(x)] : x \in SubtitleMaps}
    \cup {[MovieX EXCEPT !.subtitles = x] :
             x \in {Text(Dict("sinhala" :> PyList(<<UrlB>>))),
                    Native(ListOf("x")), Text(Null), BadText, EmptyText}}
    \cup {[MovieX EXCEPT !.english_subtitles = x] : x \in ListInputs}
    \cup {[MovieX EXCEPT !.sinhala_subtitles = PyStr(<<"b", ",">>)]}

Record ==
    [headers |-> {NoHeader, GoodHeader},
     faults |-> {"none"},
     ids |-> {1, 2},
     maxid |-> 1,
     maxepisodes |-> MaxEpisodes,
     bodies |-> RecordBodies,
     updates |-> {MovieX, [TvY EXCEPT !.seasons = Native(OneSeason(<<Ep1(Null)>>))],
                  [MovieX EXCEPT !.file_type = "exe"]},
     episodes |-> {EpisodeReq(1, 1)},
     subtitles |-> {[NoSubtitleKeys EXCEPT !.english = PyList(<<UrlB>>)],
                    [NoSubtitleKeys EXCEPT !.english = PyList(<<UrlB>>),
                                           !.season_number = PyNum(1),
                                           !.episode_number = PyNum(1)]},
     lookups |-> {Lookup(Missing, "tv")},
     providers |-> {"ok"},
     maxsize |-> TmdbMaxsize]

NextRecord == Requests(Record)

SpecRecord == Init /\ [][NextRecord]_vars

-----------------------------------------------------------------------------
(* One tv record, its episodes and their subtitles. *)

\* season_1 holds episode 1, with a total_episodes that is not its length
StaleTotal ==
    Dict(1 :> Bucket(PyNum(1), PyNum(5), <<Ep1(DefaultSubtitles)>>))

EpisodeBodies ==
    {TvY,
     MovieX,
     [TvY EXCEPT !.seasons = Native(StaleTotal)],
     [TvY EXCEPT !.seasons =
         Native(Dict(1 :> [Bucket(PyNum(1), PyNum(0), <<>>)
                              EXCEPT !.ek = "missing"]))],
     [TvY EXCEPT !.seasons = Text(Null)]}

EpisodeRequests ==
    {EpisodeReq(1, 1),
     EpisodeReq(1, 2),
     [EpisodeReq(2, 1) EXCEPT !.english_subtitles = PyStr(<<"a", ",", " ", "b">>)],
     [NoEpisodeKeys EXCEPT !.episode_name = S1("n")],
     [EpisodeReq(1, 3) EXCEPT !.video_links = Native(ListOf("x"))]}

SubtitleRequests ==
    {[NoSubtitleKeys EXCEPT !.english = PyList(<<UrlB>>)],
     [NoSubtitleKeys EXCEPT !.english = PyList(<<UrlB>>),
                            !.season_number = PyNum(1),
                            !.episode_number = PyNum(1)],
     [NoSubtitleKeys EXCEPT !.sinhala = S1("c"),
                            !.season_number = PyNum(1),
                            !.episode_number = PyNum(2)],
     [NoSubtitleKeys EXCEPT !.english = PyList(<<UrlB>>),
                            !.season_number = PyNum(3),
                            !.episode_number = PyNum(1)]}

Episodes ==
    [headers |-> {NoHeader, GoodHeader},
     faults |-> {"none"},
     ids |-> {1, 2},
     maxid |-> 1,
     maxepisodes |-> MaxEpisodes,
     bodies |-> EpisodeBodies,
     updates |-> {TvY},
     episodes |-> EpisodeRequests,
     subtitles |-> SubtitleRequests,
     lookups |-> {Lookup(Missing, "tv")},
     providers |-> {"ok"},
     maxsize |-> TmdbMaxsize]

NextEpisodes == Requests(Episodes)

SpecEpisodes == Init /\ [][NextEpisodes]_vars

-----------------------------------------------------------------------------
(* Properties *)

AdminOps ==
    {"tmdb_fetch_api", "add_media", "update_media", "delete_media",
     "add_episode", "update_media_subtitles", "update_episode_subtitles",
     "admin_page", "add_episode_page"}

\* the header carries the operator's credentials in the Basic scheme
Authentic(header) ==
    /\ header.present
    /\ header.parts = 2
    /\ header.auth_type \in {"Basic", "basic", "BASIC"}
    /\ header.b64
    /\ header.colon
    /\ header.username = ADMIN_USERNAME
    /\ header.password = ADMIN_PASSWORD

\* C1: a request to an admin endpoint whose header does not carry the
\* operator's Basic credentials is answered 401, and then the handler does
\* not run: no connection is taken from get_db and the relation and the id
\* sequence are unchanged.  Every admin endpoint goes through requires_auth,
\* and requires_auth lets only an authentic header through.
C1_Unauthorized ==
    [][/\ \A header \in AuthHeaders :
             requires_auth(header) = "run" <=> Authentic(header)
       /\ req'.op \in AdminOps =>
             /\ req'.auth \in {"run", "Authorization Required",
                               "Authorization Failed"}
             /\ req'.auth # "run" =>
                   /\ resp'.status = 401
                   /\ resp'.msg = req'.auth
                   /\ ~resp'.conn
                   /\ resp'.out = NoOut
                   /\ media' = media
                   /\ nextId' = nextId]_vars

\* a mutating admin request is rejected while the relation holds a record
C1_Witness ==
    /\ req.op = "delete_media"
    /\ req.auth = "Authorization Failed"
    /\ resp.status = 401
    /\ media # <<>>

\* an id the sequence has handed out that holds no record: a deleted one
Deleted(store, next, id) == id < next /\ id \notin DOMAIN store

\* C2: DELETE on an id without a record answers 404 and leaves the relation
\* unchanged; DELETE on an id with a record removes that record and no
\* other; a GET on an id without a record answers 404; and a deleted id
\* stays without a record, the sequence never handing it out again.
C2_Delete ==
    [][/\ (req'.op = "delete_media" /\ req'.auth = "run") =>
             IF req'.id \in DOMAIN media
             THEN /\ resp'.status = 200
                  /\ DOMAIN media' = DOMAIN media \ {req'.id}
                  /\ \A i \in DOMAIN media' : media'[i] = media[i]
             ELSE /\ resp'.status = 404
                  /\ media' = media
       /\ (req'.op = "get_single_media" /\ req'.id \notin DOMAIN media) =>
             /\ resp'.status = 404
             /\ resp'.out = NoOut
       /\ \A id \in 1..(MaxId + 1) :
             Deleted(media, nextId, id) => Deleted(media', nextId', id)
       /\ nextId' >= nextId]_vars

\* a GET on a deleted id, answered 404 while another record is there
C2_Witness ==
    /\ req.op = "get_single_media"
    /\ Deleted(media, nextId, req.id)
    /\ resp.status = 404
    /\ media # <<>>

\* the episode list under key of a seasons value, <<>> when key is not there
EpisodesAt(seasons, key) ==
    IF key \in DOMAIN seasons.m THEN seasons.m[key].episodes ELSE <<>>

\* C3: a successful add_episode with season number n on a tv record leaves
\* a seasons map with the bucket season_n, whose episode list is the former
\* one (empty when the bucket was not there) with the new episode at its
\* end, and whose total_episodes is the length of that list; the other
\* buckets, the other columns and the other records are as before.  An
\* episode sent without subtitles carries {english: [], sinhala: []}.
C3_Append ==
    [][(req'.op = "add_episode" /\ req'.auth = "run" /\ resp'.status = 200) =>
          LET id == req'.id
              key == season_key(Get(req'.data.season_number))
              before == safe_json_loads(media[id].seasons, EmptyDict)
              after == safe_json_loads(media'[id].seasons, EmptyDict)
              old == EpisodesAt(before, key)
              new == EpisodesAt(after, key)
          IN /\ IsTv(media, id)
             /\ after.k = "dict"
             /\ DOMAIN after.m = DOMAIN before.m \cup {key}
             /\ after.m[key].ek = "list"
             /\ Len(new) = Len(old) + 1
             /\ SubSeq(new, 1, Len(old)) = old
             /\ new[Len(new)].episode_number = Get(req'.data.episode_number)
             /\ new[Len(new)].subtitles.k = "dict"
             /\ DOMAIN new[Len(new)].subtitles.m = Languages
             /\ (/\ req'.data.english_subtitles = Missing
                 /\ req'.data.sinhala_subtitles = Missing) =>
                    new[Len(new)].subtitles = DefaultSubtitles
             /\ after.m[key].total_episodes = PyNum(Len(new))
             /\ after.m[key].season_number =
                    IF key \in DOMAIN before.m
                    THEN before.m[key].season_number
                    ELSE Get(req'.data.season_number)
             /\ \A other \in DOMAIN before.m \ {key} :
                    after.m[other] = before.m[other]
             /\ media' = [media EXCEPT ![id].seasons = media'[id].seasons]
             /\ nextId' = nextId]_vars

\* the first episode of a record without seasons: season_1 has
\* total_episodes 1 and the episode, with the default subtitles
C3_Witness ==
    /\ req.op = "add_episode"
    /\ resp.status = 200
    /\ req.data = EpisodeReq(1, 1)
    /\ media[req.id].seasons =
           Text(Dict(1 :> Bucket(PyNum(1), PyNum(1),
                                 <<Episode(PyNum(1), PyNone, NoVideo,
                                           DefaultSubtitles)>>)))

\* every episode of the seasons value has a subtitles dict with both keys
SubtitlesComplete(seasons) ==
    seasons.k = "dict" =>
        \A key \in DOMAIN seasons.m :
            seasons.m[key].ek = "list" =>
                \A i \in 1..Len(seasons.m[key].episodes) :
                    LET episode == seasons.m[key].episodes[i]
                    IN episode.k = "dict" =>
                          /\ episode.subtitles.k = "dict"
                          /\ Languages \subseteq DOMAIN episode.subtitles.m

\* C4: every episode in every season of every record, in the stored seasons
\* column and in the record get_single_media and get_all_media return, has
\* a subtitles value that is a mapping with the keys english and sinhala.
C4_EpisodeSubtitles ==
    /\ \A id \in DOMAIN media :
          /\ SubtitlesComplete(safe_json_loads(media[id].seasons, Null))
          /\ ~parse_raises(media[id]) =>
                SubtitlesComplete(parse_media_row(id, media[id]).seasons)
    /\ resp.out.k = "record" => SubtitlesComplete(resp.out.v.seasons)
    /\ resp.out.k = "list" =>
          \A i \in 1..Len(resp.out.v) : SubtitlesComplete(resp.out.v[i].seasons)

\* the episode a subtitle request at episode scope names is in the record
EpisodeThere(store, id, season_number, episode_number) ==
    /\ id \in DOMAIN store
    /\ LET seasons == safe_json_loads(store[id].seasons, EmptyDict)
           key == season_key(season_number)
       IN /\ seasons.k = "dict"
          /\ key \in DOMAIN seasons.m
          /\ seasons.m[key].ek = "list"
          /\ FirstMatch(seasons.m[key].episodes, episode_number) # 0

\* the request is a replacement of subtitles at episode scope
EpisodeScope(store, r) ==
    /\ r.auth = "run"
    /\ r.op \in {"update_media_subtitles", "update_episode_subtitles"}
    /\ ~EmptyBody([r.data EXCEPT !.season_number = Missing,
                                 !.episode_number = Missing])
    /\ Get(r.data.season_number) # PyNone
    /\ Get(r.data.episode_number) # PyNone
    /\ (r.op = "update_media_subtitles" /\ r.id \in DOMAIN store) =>
           store[r.id].type = "tv"

\* C5: a replacement of subtitles at episode scope, through either
\* endpoint, answers 404 when the record, the season bucket or an episode
\* with that number is not there, and answers 200 only when the subtitles
\* of a matching episode were replaced.
C5_EpisodeScopeNotFound ==
    [][EpisodeScope(media, req') =>
          IF EpisodeThere(media, req'.id, Get(req'.data.season_number),
                          Get(req'.data.episode_number))
          THEN resp'.status = 200 =>
                  LET seasons == safe_json_loads(media'[req'.id].seasons,
                                                 EmptyDict)
                      key == season_key(Get(req'.data.season_number))
                      hit == FirstMatch(seasons.m[key].episodes,
                                        Get(req'.data.episode_number))
                  IN seasons.m[key].episodes[hit].subtitles =
                         new_subtitles(req'.data)
          ELSE resp'.status = 404 /\ media' = media]_vars

\* C6: add_episode with an episode in the body, on an id that has no
\* record or whose record is not of type tv, answers 404 "TV series not
\* found"; with or without an episode in the body, it leaves every record,
\* the seasons column of that record included, unchanged.
C6_AppendNotFound ==
    [][(/\ req'.op = "add_episode"
        /\ req'.auth = "run"
        /\ req'.id \in DOMAIN media => media[req'.id].type # "tv") =>
          /\ media' = media
          /\ nextId' = nextId
          /\ ~EmptyBody(req'.data) =>
                resp'.status = 404 /\ resp'.msg = "TV series not found"]_vars

\* an episode is sent to a movie record
C6_Witness ==
    /\ req.op = "add_episode"
    /\ req.auth = "run"
    /\ resp.status = 404
    /\ req.id \in DOMAIN media
    /\ media[req.id].type = "movie"

\* C7: update_media on an id with a record puts in every column the value
\* assembled from the request alone: a rating sent as "" is stored absent
\* and seasons left out is stored as the empty map, whatever the record
\* held; the other records are as before.  On an id without a record it
\* answers 404, when the request has a title, and in no case is a record
\* created.
C7_Overwrite ==
    [][(req'.op = "update_media" /\ req'.auth = "run") =>
          /\ DOMAIN media' = DOMAIN media
          /\ nextId' = nextId
          /\ \A i \in DOMAIN media \ {req'.id} : media'[i] = media[i]
          /\ (req'.id \notin DOMAIN media /\ ~TitleMissing(req'.data)) =>
                resp'.status = 404
          /\ (req'.id \in DOMAIN media /\ resp'.status = 200) =>
                /\ media'[req'.id] = RowOf(prepare_media_data(req'.data))
                /\ req'.data.rating = PyStr(<<>>) =>
                      media'[req'.id].rating = PyNone
                /\ req'.data.seasons = MissingJ =>
                      media'[req'.id].seasons = Text(EmptyDict)]_vars

\* a record is updated with rating "" and without seasons
C7_Witness ==
    /\ req.op = "update_media"
    /\ resp.status = 200
    /\ req.data.rating = PyStr(<<>>)
    /\ req.data.seasons = MissingJ
    /\ media[req.id].rating = PyNone
    /\ media[req.id].seasons = Text(EmptyDict)

\* the columns of a record other than release_date
OtherFields ==
    {"type", "title", "description", "rating", "cast_members", "video_links",
     "download_links", "telegram_links", "total_seasons", "seasons", "genres",
     "file_type", "source_type", "youtube_trailer", "screenshots_720p",
     "subtitles"}

\* the first ten characters of a date sent as text
FirstTen(value) ==
    IF value.k = "str" /\ Len(value.s) > DateLen
    THEN PyStr(SubSeq(value.s, 1, DateLen))
    ELSE value

\* get_single_media follows the add_media that was answered 201, for its id
AddThenGet ==
    /\ req.op = "add_media"
    /\ resp.status = 201
    /\ req'.op = "get_single_media"
    /\ req'.id = resp.out.id

\* C8 as amended: the record get_single_media returns right after an
\* accepted add_media equals the assembled record on every field but
\* release_date, the JSON-valued fields as the native list or mapping, and
\* its release_date is the assembled one cut to its first ten characters.
C8_RoundTripDate ==
    [][AddThenGet =>
          /\ resp'.status = 200
          /\ resp'.out.k = "record"
          /\ resp'.out.v.id = req'.id
          /\ \A f \in OtherFields :
                resp'.out.v[f] = prepare_media_data(req.data)[f]
          /\ resp'.out.v.release_date =
                FirstTen(prepare_media_data(req.data).release_date)]_vars

\* C8: the record get_single_media returns right after an accepted
\* add_media equals the assembled record on every field, the JSON-valued
\* fields as the native list or mapping.
C8_RoundTrip ==
    [][AddThenGet =>
          /\ resp'.status = 200
          /\ resp'.out.k = "record"
          /\ \A f \in OtherFields \cup {"release_date"} :
                resp'.out.v[f] = prepare_media_data(req.data)[f]]_vars

\* a record stored with a release_date longer than ten characters is
\* returned with the first ten
C8_Witness ==
    /\ req.op = "get_single_media"
    /\ resp.status = 200
    /\ media[req.id].release_date.k = "str"
    /\ Len(media[req.id].release_date.s) > DateLen
    /\ resp.out.v.release_date = PyStr(Date10)

\* the JSON-valued fields of a returned record have their typed shape
Typed(record) ==
    /\ record.cast_members.k = "list"
    /\ record.video_links.k = "dict"
    /\ record.download_links.k = "dict"
    /\ record.telegram_links.k = "dict"
    /\ record.subtitles.k = "dict"
    /\ record.seasons.k = "dict"
    /\ record.genres.k = "list"
    /\ record.screenshots_720p.k = "list"

\* C9: in every record get_single_media and get_all_media return, the link
\* maps, subtitles and seasons are mappings and cast_members, genres and
\* the screenshot galleries are lists, whatever the columns hold.
C9_TypedShape ==
    /\ resp.out.k = "record" => Typed(resp.out.v)
    /\ resp.out.k = "list" =>
          \A i \in 1..Len(resp.out.v) : Typed(resp.out.v[i])

\* C10: the source_type and the file_type of every stored record are in
\* the allow-list, a value outside it having been replaced by the default.
C10_AllowList ==
    \A id \in DOMAIN media :
        /\ media[id].source_type \in valid_source_types
        /\ media[id].file_type \in valid_source_types

\* the title of the request is missing, empty, or blank after str.strip
NoTitle(data) ==
    \/ data.title \in {Missing, PyNone, PyStr(<<>>)}
    \/ data.title.k = "str" /\ Strip(data.title.s) = <<>>

\* C11: add_media and update_media answer a request whose title is missing,
\* empty or whitespace-only with 400 and leave the relation unchanged, and
\* every record of the relation has a title that is not empty.
C11_TitleRequired ==
    [][/\ (/\ req'.op \in {"add_media", "update_media"}
           /\ req'.auth = "run"
           /\ NoTitle(req'.data)) =>
             /\ resp'.status = 400
             /\ media' = media
       /\ \A id \in DOMAIN media' :
             /\ media'[id].title # PyNone
             /\ media'[id].title # PyStr(<<>>)]_vars

\* https://www.youtube.com/embed/<id>, with <id> eleven characters of [\w-]
Canonical(value) ==
    /\ value.k = "str"
    /\ Len(value.s) = Len(EmbedPrefix) + IdLen
    /\ SubSeq(value.s, 1, Len(EmbedPrefix)) = EmbedPrefix
    /\ \A i \in (Len(EmbedPrefix) + 1)..Len(value.s) : value.s[i] \in IdChars

\* C12: the youtube_trailer of every stored record is the canonical embed
\* url of an eleven-character id, or empty: a text no id can be extracted
\* from is not stored.
C12_CanonicalTrailer ==
    \A id \in DOMAIN media :
        \/ media[id].youtube_trailer = PyNone
        \/ Canonical(media[id].youtube_trailer)

-----------------------------------------------------------------------------
(* The list-like inputs on their own: parse_subtitle_input and             *)
(* process_screenshots applied to one sequence of urls written as a JSON   *)
(* array, as comma-separated text, and as a list.                          *)

MaxUrls == 2

Urls == {UrlA, UrlB, <<"h", ":", "/", "x">>}

RECURSIVE ListsUpTo(_)
\* the sequences of at most n urls
ListsUpTo(n) ==
    IF n = 0 THEN {<<>>}
    ELSE ListsUpTo(n - 1)
             \cup {Append(l, u) : l \in {x \in ListsUpTo(n - 1) : Len(x) = n - 1},
                                  u \in Urls}

RECURSIVE Join(_, _)
\* sep.join(l)
Join(l, sep) ==
    IF l = <<>> THEN <<>>
    ELSE IF Len(l) = 1 THEN l[1]
    ELSE l[1] \o sep \o Join(Tail(l), sep)

Forms == {"json", "csv", "csv blank", "list", "bad array"}

\* the urls l written in the form asked for
Written(l, form) ==
    CASE form = "json" -> PyStr(JsonDumpsList(l))
      [] form = "csv" -> PyStr(Join(l, <<",">>))
      [] form = "csv blank" -> PyStr(Join(l, <<",", " ">>))
      [] form = "list" -> PyList(l)
      [] form = "bad array" -> PyStr(<<"[">> \o Join(l, <<",">>) \o <<"]">>)

\* a call of one of the two functions: req holds the input, resp the result
Parsed(fn, l, form, result) ==
    /\ req' = [op |-> fn, id |-> 0, auth |-> "public",
               data |-> [urls |-> l, form |-> form, value |-> Written(l, form)],
               fault |-> "none"]
    /\ resp' = [status |-> 0, msg |-> "", conn |-> FALSE,
                out |-> [k |-> "value", v |-> result]]
    /\ UNCHANGED <<media, nextId, inflight, pool, cache>>

ParseSubtitleInput ==
    \E l \in ListsUpTo(MaxUrls), form \in Forms :
        Parsed("parse_subtitle_input", l, form,
               parse_subtitle_input(Written(l, form)))

ProcessScreenshots ==
    \E l \in ListsUpTo(MaxUrls), form \in Forms :
        Parsed("process_screenshots", l, form,
               process_screenshots(Written(l, form)))

NextLists == ParseSubtitleInput \/ ProcessScreenshots

SpecLists == Init /\ [][NextLists]_vars

\* C13: for a sequence of urls (texts that are not empty, hold no comma and
\* no blank and do not begin with "["), parse_subtitle_input and
\* process_screenshots give that sequence, in its order, whether it comes as
\* a JSON array text, as comma-separated text or as a list; a text that
\* looks like an array and does not parse gives the empty list.
C13_ListForms ==
    req.op \in {"parse_subtitle_input", "process_screenshots"} =>
        IF req.data.form = "bad array" /\ req.data.urls # <<>>
        THEN resp.out.v = PyList(<<>>)
        ELSE resp.out.v = PyList(req.data.urls)

\* two urls sent as comma-separated text with blanks come out as the list
C13_Witness ==
    /\ req.op = "process_screenshots"
    /\ req.data.form = "csv blank"
    /\ Len(req.data.urls) = MaxUrls
    /\ resp.out.v = PyList(req.data.urls)

-----------------------------------------------------------------------------
(* Requests served at the same time.                                       *)
(* Each worker serves one request, statement by statement: the handler     *)
(* enters and calls get_db (Begin), its SELECT reads the row (Select), its *)
(* UPDATE or DELETE is executed and committed (Write), and Flask runs      *)
(* close_db when the request ends (Teardown).  inflight[w] is the request  *)
(* of worker w: pc its position, seen the row its SELECT returned, db      *)
(* whether 'db' is in its g, rows the cur.rowcount of its UPDATE or DELETE, *)
(* status the status it answered.  No handler                              *)
(* takes a row lock (no SELECT ... FOR UPDATE), and UPDATE and commit are  *)
(* adjacent, so the statement and its commit are one step.                 *)

MaxWorkers == 2

Workers == 1 .. MaxWorkers

Idle ==
    [pc |-> "idle", op |-> "none", id |-> 0, data |-> NoData, seen |-> <<>>,
     db |-> FALSE, rows |-> 0, status |-> 0]

\* g.db of an app context that is not there: every request starts so
NoG == [db |-> FALSE]

\* get_db, lines 61-70: the connection of g when there is one, and else a
\* connection taken out of connection_pool; getconn failing leaves g as it is
get_db(g, checked_out, fault) ==
    IF g.db THEN [db |-> TRUE, pool |-> checked_out, error |-> FALSE]
    ELSE IF fault = "conn"
    THEN [db |-> FALSE, pool |-> checked_out, error |-> TRUE]
    ELSE [db |-> TRUE, pool |-> checked_out + 1, error |-> FALSE]

\* a teardown that pops g.db and does not hand it back
close_db_keep(g, checked_out) == [db |-> FALSE, pool |-> checked_out]

\* close_db, lines 72-79: putconn of the connection g holds, if any
close_db(g, checked_out) ==
    [db |-> FALSE, pool |-> IF g.db THEN checked_out - 1 ELSE checked_out]

\* the handlers whose UPDATE follows a SELECT of the same row
ReadModifyWrite == {"add_episode", "update_media_subtitles"}

\* the handlers that run a SELECT
Selecting == ReadModifyWrite \cup {"get_single_media"}

\* the requests a worker may serve, all with valid credentials
WorkerRequests ==
    {[op |-> "add_episode", id |-> 1, data |-> d] :
        d \in {EpisodeReq(1, 1), EpisodeReq(1, 2), NoEpisodeKeys,
               [EpisodeReq(1, 3) EXCEPT !.video_links = Native(ListOf("x"))]}}
    \cup {[op |-> "update_media_subtitles", id |-> 1, data |-> d] :
        d \in {[NoSubtitleKeys EXCEPT !.english = PyList(<<UrlB>>)],
               [NoSubtitleKeys EXCEPT !.english = PyList(<<UrlB>>),
                                      !.season_number = PyNum(1),
                                      !.episode_number = PyNum(1)]}}
    \cup {[op |-> "update_media", id |-> 1,
           data |-> [TvY EXCEPT !.title = PyStr(<<"Z">>)]],
          [op |-> "delete_media", id |-> 1, data |-> NoData],
          [op |-> "get_single_media", id |-> 1, data |-> NoData]}

\* the handler of request r, run on the rows of store
Handle(store, next, r, fault) ==
    CASE r.op = "add_episode" -> add_episode(store, next, r.id, r.data, fault)
      [] r.op = "update_media_subtitles" ->
            update_media_subtitles(store, next, r.id, r.data, fault)
      [] r.op = "update_media" -> update_media(store, next, r.id, r.data, fault)
      [] r.op = "delete_media" -> delete_media(store, next, r.id, fault)
      [] r.op = "get_single_media" ->
            get_single_media(store, next, r.id, fault)

\* the row a SELECT ... WHERE id = media_id returns, none when no row matches
SelectRow(store, media_id) ==
    IF media_id \in DOMAIN store THEN media_id :> store[media_id] ELSE <<>>

\* a handler that reads the row again when it writes
ComputedFromStore(store, next, r) ==
    Handle(SelectRow(store, r.id), next, r, "none")

\* lines 730-769 and 824-853: what the handler computes from the row its
\* SELECT returned
Computed(store, next, r) == Handle(r.seen, next, r, "none")

\* the columns the UPDATE of request r sets: lines 771-774, 835-838,
\* 855-858 and 865-868
Columns(r) ==
    IF r.op = "add_episode" THEN {"seasons"}
    ELSE IF r.seen[r.id].type \notin {"movie", "tv"} THEN {}
    ELSE IF /\ r.seen[r.id].type = "tv"
            /\ Get(r.data.season_number).k # "none"
            /\ Get(r.data.episode_number).k # "none"
    THEN {"seasons"}
    ELSE {"subtitles"}

\* an UPDATE that inserts the row when no row has the id
UpdateWhereUpsert(store, media_id, row, columns) ==
    [i \in DOMAIN store \cup {media_id} |->
        IF i # media_id THEN store[i]
        ELSE IF i \notin DOMAIN store THEN row
        ELSE [c \in DOMAIN store[i] |->
                 IF c \in columns THEN row[c] ELSE store[i][c]]]

\* UPDATE media SET columns WHERE id = media_id: no row is touched when no
\* row has the id
UpdateWhere(store, media_id, row, columns) ==
    [i \in DOMAIN store |->
        IF i = media_id
        THEN [c \in DOMAIN store[i] |->
                 IF c \in columns THEN row[c] ELSE store[i][c]]
        ELSE store[i]]

InitWorkers ==
    /\ media = 1 :> RowOf(prepare_media_data(TvY))
    /\ nextId = 2
    /\ req = [op |-> "none", id |-> 0, auth |-> "public", data |-> NoData,
              fault |-> "none"]
    /\ resp = [status |-> 0, msg |-> "", conn |-> FALSE, out |-> NoOut]
    /\ inflight = [w \in Workers |-> Idle]
    /\ pool = 0
    /\ cache = NoCaches

\* the request arrives and the handler runs up to its get_db call: a body
\* that is refused is answered before get_db, a failing getconn after it
Begin(w) ==
    /\ inflight[w].pc = "idle"
    /\ \E r \in WorkerRequests, fault \in {"none", "conn"} :
          LET refused == Handle(<<>>, nextId, r, "none").status = 400
              conn == get_db(NoG, pool, fault)
          IN IF refused
             THEN /\ inflight' = [inflight EXCEPT ![w] =
                        [Idle EXCEPT !.pc = "done", !.op = r.op, !.id = r.id,
                                     !.data = r.data, !.status = 400]]
                  /\ pool' = pool
             ELSE /\ inflight' = [inflight EXCEPT ![w] =
                        [Idle EXCEPT !.pc = IF conn.error THEN "done" ELSE "conn",
                                     !.op = r.op, !.id = r.id, !.data = r.data,
                                     !.db = conn.db,
                                     !.status = IF conn.error THEN 500 ELSE 0]]
                  /\ pool' = conn.pool
    /\ UNCHANGED <<media, nextId, req, resp, cache>>

\* the SELECT of the handler: lines 727-731, 818-822 and 543-554
Select(w) ==
    LET r == [inflight[w] EXCEPT !.seen = SelectRow(media, inflight[w].id)]
        reply == Computed(media, nextId, r)
    IN /\ inflight[w].pc = "conn"
       /\ inflight[w].op \in Selecting
       /\ inflight' = [inflight EXCEPT ![w] =
             IF r.op = "get_single_media" \/ reply.status = 404
             THEN [r EXCEPT !.pc = "done", !.status = reply.status]
             ELSE [r EXCEPT !.pc = "read"]]
       /\ UNCHANGED <<media, nextId, req, resp, pool, cache>>

\* the UPDATE or DELETE of the handler and its commit; a statement that
\* raises psycopg2.DatabaseError is rolled back and answered 400
Write(w) ==
    LET r == inflight[w]
    IN /\ \/ r.pc = "read"
          \/ r.pc = "conn" /\ r.op \notin Selecting
       /\ \E fault \in {"none", "stmt"} :
             LET reply == IF r.op \in ReadModifyWrite /\ fault = "none"
                          THEN Computed(media, nextId, r)
                          ELSE Handle(media, nextId, r, fault)
             IN /\ media' = IF r.op \notin ReadModifyWrite THEN reply.media
                            ELSE IF fault = "none" /\ reply.status = 200
                            THEN UpdateWhere(media, r.id, reply.media[r.id],
                                             Columns(r))
                            ELSE media
                /\ inflight' = [inflight EXCEPT ![w] =
                      [r EXCEPT !.pc = "done", !.status = reply.status,
                                !.rows = IF /\ fault = "none"
                                            /\ reply.status # 500
                                            /\ r.id \in DOMAIN media
                                         THEN 1 ELSE 0]]
       /\ UNCHANGED <<nextId, req, resp, pool, cache>>

\* the request ends, whatever its answer: Flask runs close_db
Teardown(w) ==
    LET g == close_db(inflight[w], pool)
    IN /\ inflight[w].pc = "done"
       /\ inflight' = [inflight EXCEPT ![w] =
             [inflight[w] EXCEPT !.pc = "closed", !.db = g.db]]
       /\ pool' = g.pool
       /\ UNCHANGED <<media, nextId, req, resp, cache>>

NextWorkers ==
    \E w \in Workers : Begin(w) \/ Select(w) \/ Write(w) \/ Teardown(w)

SpecWorkers == InitWorkers /\ [][NextWorkers]_vars

WorkersTypeOK == pool \in 0 .. MaxWorkers

\* C15: two add_episode requests on the same tv record are not serialised.
\* When a request writes its seasons map back after another add_episode
\* that had read the same row has already answered 200, the map it stores
\* is the one it read with its own episode appended, total_episodes
\* counting that list: the episode of the other request is not in it.
C15_LostUpdate ==
    [][\A w \in Workers : \A v \in Workers \ {w} :
        (/\ inflight[w].pc = "read" /\ inflight'[w].pc = "done"
         /\ inflight[w].op = "add_episode" /\ inflight'[w].status = 200
         /\ inflight[v].op = "add_episode" /\ inflight[v].status = 200
         /\ inflight[v].pc \in {"done", "closed"}
         /\ inflight[v].id = inflight[w].id
         /\ inflight[v].seen = inflight[w].seen
         /\ inflight[w].id \in DOMAIN media') =>
        LET r == inflight[w]
            key == season_key(Get(r.data.season_number))
            before == safe_json_loads(r.seen[r.id].seasons, EmptyDict)
            after == safe_json_loads(media'[r.id].seasons, EmptyDict)
        IN /\ media'[r.id].seasons = json_dumps(AppendEpisode(before, r.data))
           /\ EpisodesAt(after, key) =
                 Append(EpisodesAt(before, key), episode_data(r.data))
           /\ after.m[key].total_episodes = PyNum(Len(EpisodesAt(after, key)))]_vars

\* both requests answered 200 for different episodes of season 1, and the
\* record holds one episode
C15_Witness ==
    \E w \in Workers : \E v \in Workers \ {w} :
        /\ inflight[w].op = "add_episode" /\ inflight[v].op = "add_episode"
        /\ inflight[w].pc = "closed" /\ inflight[v].pc = "closed"
        /\ inflight[w].status = 200 /\ inflight[v].status = 200
        /\ inflight[w].data = EpisodeReq(1, 1)
        /\ inflight[v].data = EpisodeReq(1, 2)
        /\ 1 \in DOMAIN media
        /\ LET seasons == safe_json_loads(media[1].seasons, EmptyDict)
           IN /\ Len(EpisodesAt(seasons, 1)) = 1
              /\ seasons.m[1].total_episodes = PyNum(1)

\* the requests being served: arrived, and close_db not yet run
InFlight == {w \in Workers : inflight[w].pc \notin {"idle", "closed"}}

\* C16: a request holds at most one connection, and the connections
\* checked out are exactly those held by requests in flight: a request
\* that has not arrived or has ended holds none, however it was answered,
\* so the count is zero when no request is in flight and never more than
\* the number of requests in flight; get_db called again by a request
\* that holds a connection checks out no other.
C16_Connections ==
    /\ pool = Cardinality({w \in Workers : inflight[w].db})
    /\ \A w \in Workers : inflight[w].db => w \in InFlight
    /\ pool <= Cardinality(InFlight)
    /\ InFlight = {} => pool = 0
    /\ \A w \in Workers :
          inflight[w].db =>
              get_db(inflight[w], pool, "none") =
                  [db |-> TRUE, pool |-> pool, error |-> FALSE]

\* every request has ended, one answered 200 and one by an exception no
\* handler catches, each having held a connection
C16_Witness ==
    /\ InFlight = {}
    /\ pool = 0
    /\ \E w \in Workers : \E v \in Workers \ {w} :
          /\ inflight[w].pc = "closed" /\ inflight[v].pc = "closed"
          /\ inflight[w].status = 200 /\ inflight[w].seen # <<>>
          /\ inflight[v].status = 500 /\ inflight[v].seen # <<>>

\* C19: a record that was deleted is not brought back by a request that
\* was being served when the DELETE committed: add_episode,
\* update_media_subtitles and update_media write with UPDATE ... WHERE id,
\* which touches no row when none has the id.  An id that holds no record
\* holds none after any step, and a get_single_media whose SELECT runs
\* then answers 404.
C19_NoResurrection ==
    [][/\ \A id \in 1 .. nextId :
             Deleted(media, nextId, id) => Deleted(media', nextId', id)
       /\ \A w \in Workers :
             (/\ inflight[w].op = "get_single_media"
              /\ inflight[w].pc = "conn" /\ inflight'[w].pc = "done"
              /\ Deleted(media, nextId, inflight[w].id)) =>
             inflight'[w].status = 404]_vars

\* a request that read the row before the DELETE committed has executed
\* its UPDATE after it, on no row, and answered 200, and the id holds no
\* record
C19_Witness ==
    \E w \in Workers : \E v \in Workers \ {w} :
        /\ inflight[w].op \in ReadModifyWrite
        /\ inflight[w].seen # <<>>
        /\ inflight[w].pc \in {"done", "closed"}
        /\ inflight[w].status = 200
        /\ inflight[w].rows = 0
        /\ inflight[v].op = "delete_media"
        /\ inflight[v].status = 200
        /\ Deleted(media, nextId, inflight[w].id)

\* the request replaces subtitles at episode scope: update_episode_subtitles,
\* or update_media_subtitles on a tv record with season and episode given
AtEpisodeScope(store, r) ==
    \/ r.op = "update_episode_subtitles"
    \/ /\ r.id \in DOMAIN store
       /\ store[r.id].type = "tv"
       /\ Get(r.data.season_number) # PyNone
       /\ Get(r.data.episode_number) # PyNone

\* the seasons values differ at most in the subtitles of the first episode
\* of bucket key whose episode_number is the one given
SameButEpisode(before, after, key, episode_number) ==
    IF before.k # "dict" THEN after = before
    ELSE /\ after.k = "dict"
         /\ DOMAIN after.m = DOMAIN before.m
         /\ \A x \in DOMAIN before.m :
               IF x # key \/ before.m[x].ek # "list"
               THEN after.m[x] = before.m[x]
               ELSE LET old == before.m[x].episodes
                        new == after.m[x].episodes
                        hit == FirstMatch(old, episode_number)
                    IN /\ [after.m[x] EXCEPT !.episodes = old] = before.m[x]
                       /\ Len(new) = Len(old)
                       /\ \A i \in 1 .. Len(old) :
                             IF i # hit THEN new[i] = old[i]
                             ELSE [new[i] EXCEPT !.subtitles =
                                      old[i].subtitles] = old[i]

\* C18: a replacement of subtitles that answers 200 changes its target
\* only.  The other records are as before; at record scope every column of
\* the record but subtitles is as before; at episode scope every column but
\* seasons is as before, and the seasons map differs at most in the
\* subtitles of the first episode of season_<n> with the episode number
\* asked for.
C18_SubtitleFrame ==
    [][(/\ req'.op \in {"update_media_subtitles", "update_episode_subtitles"}
        /\ req'.auth = "run"
        /\ resp'.status = 200) =>
       /\ DOMAIN media' = DOMAIN media
       /\ req'.id \in DOMAIN media
       /\ \A i \in DOMAIN media \ {req'.id} : media'[i] = media[i]
       /\ IF AtEpisodeScope(media, req')
          THEN /\ [media'[req'.id] EXCEPT !.seasons = media[req'.id].seasons]
                     = media[req'.id]
               /\ SameButEpisode(
                     safe_json_loads(media[req'.id].seasons, EmptyDict),
                     safe_json_loads(media'[req'.id].seasons, EmptyDict),
                     season_key(Get(req'.data.season_number)),
                     Get(req'.data.episode_number))
          ELSE [media'[req'.id] EXCEPT !.subtitles = media[req'.id].subtitles]
                  = media[req'.id]]_vars

\* subtitles were replaced at episode scope in a season of two episodes or
\* more, the episode now carrying the subtitles sent
C18_Witness ==
    /\ req.op \in {"update_media_subtitles", "update_episode_subtitles"}
    /\ req.auth = "run"
    /\ resp.status = 200
    /\ AtEpisodeScope(media, req)
    /\ LET seasons == safe_json_loads(media[req.id].seasons, EmptyDict)
           key == season_key(Get(req.data.season_number))
       IN /\ seasons.k = "dict"
          /\ key \in DOMAIN seasons.m
          /\ Len(seasons.m[key].episodes) >= 2
          /\ \E i \in 1 .. Len(seasons.m[key].episodes) :
                /\ seasons.m[key].episodes[i].subtitles = new_subtitles(req.data)
                /\ new_subtitles(req.data) # DefaultSubtitles

-----------------------------------------------------------------------------
(* The provider lookups and their caches.  MaxSize stands for the maxsize  *)
(* of line 104: the cache is followed with room for MaxSize results and    *)
(* more keys than that, so that results are displaced.                     *)

MaxSize == 2

Lookups ==
    [headers |-> {NoHeader, GoodHeader},
     lookups |-> {Lookup(PyNum(i), media_type) :
                     i \in 1..2, media_type \in {"movie", "tv"}}
                 \cup {Lookup(Missing, "tv")},
     providers |-> Providers,
     maxsize |-> MaxSize]

NextLookups == TmdbFetchApi(Lookups) \/ GetAllGenres(Lookups)

SpecLookups == Init /\ [][NextLookups]_vars

\* the request is a lookup that names an id and a type, admitted
ValidLookup(r) ==
    /\ r.op = "tmdb_fetch_api"
    /\ r.auth = "run"
    /\ Truthy(Get(r.data.tmdb_id))
    /\ r.data.media_type \in {"movie", "tv"}

\* the result kept for key
Kept(entries, key) == entries[Position(entries, key)].result

\* C14: when the provider fails a lookup (another status, a timeout, or a
\* 200 body without the expected parts), tmdb_fetch_api answers 404 to a
\* request that names an id and a type, and get_all_genres answers 200 with
\* the genres of the lookups that worked or were kept: never a 500.
C14_UpstreamFailure ==
    [][/\ (/\ ValidLookup(req')
           /\ req'.data.called
           /\ req'.data.provider # "ok") =>
             resp'.status = 404
       /\ req'.op = "get_all_genres" =>
             /\ resp'.status = 200
             /\ resp'.out.v =
                    UNION {IF Cached(cache.genres, <<x>>)
                           THEN Kept(cache.genres, <<x>>)
                           ELSE IF req'.data[x] = "ok" THEN GenreNames(x)
                           ELSE {} : x \in {"movie", "tv"}}]_vars

====
